---- MODULE Spec2Model ----
(***************************************************************************)
(* Model of the bootCAN back-end: the channel subsystem (core/channel.rs), *)
(* the HAL back-ends it drives (hal/virtual_can.rs, hal/socketcan.rs,      *)
(* hal/pcan.rs), the statistics record (core/bus_stats.rs), the filter     *)
(* engine (core/filter.rs) and the commands of commands.rs that call       *)
(* Channel::connect / disconnect / send / receive under the channel's      *)
(* write lock (Spec; SpecWithFilter adds set_advanced_filter).  The parts   *)
(* of the program that do not go through a channel have specifications of *)
(* their own: a virtual interface driven directly (SpecVcan), the channel  *)
(* manager (SpecManager), FilterSet::matches (SpecFilter) and the trace    *)
(* player of core/trace_player.rs (SpecPlayer).  The playback commands and *)
(* the playback task (SpecPlayback), the CSV trace written by              *)
(* core/trace_logger.rs and read back by the player (SpecCsv), the logging *)
(* commands with the forwarder and writer tasks (SpecLogging), the         *)
(* periodic transmit jobs (SpecPeriodic), the receive loops of the connect *)
(* commands (SpecRxloop), DbcDatabase::decode_message (SpecDecode), the    *)
(* DBC and SYM parsers of core/dbc (SpecParse) and the loading of a TRC    *)
(* trace (SpecTrc) follow.  After them come send_message with the frames   *)
(* of the CanFrame constructors (SpecSend), the send of each HAL back-end  *)
(* (SpecHal), the sign extension of Signal::extract_raw_value (SpecSx),    *)
(* the file rotation of the logger's writer task (SpecRot),                *)
(* CanFilter::range under the virtual interface's filter test (SpecRng),   *)
(* the can-message events of sent frames (SpecEmit) and the order in which *)
(* commands and tasks take the shared locks of AppState (SpecLk).          *)
(*                                                                         *)
(* Time is a logical clock `now` (std::time::Instant is monotonic); a      *)
(* timestamp is the number of clock ticks elapsed since an instant.        *)
(***************************************************************************)
EXTENDS Integers, Sequences, FiniteSets, TLC

(* ------------------------------ bounds -------------------------------- *)

\* the logical clock stops advancing at MaxTime
MaxTime == 1

\* at most MaxPub frames are published on the fan-out in one behaviour
MaxPub == 2

\* at most MaxErrors back-end receive errors are counted in one behaviour
MaxErrors == 1

\* at most MaxOps operations are run on the stand-alone virtual interface
MaxOps == 3

\* a filter set given to FilterSet::matches holds at most MaxRules rules
MaxRules == 2

\* a trace file holds at most MaxFrames frames
MaxFrames == 2

(* ------------------------- program constants -------------------------- *)

\* capacity of the virtual interface's receive ring buffer
RX_BUFFER_CAPACITY == 1000

\* Option<Instant>::None
NoInstant == -1

\* the id the channel was created with (connect_channel's channel_id)
ChannelId == "ch1"

\* interface ids a connect command may be given, by prefix
VcanIds == {"vcan0"}
CanIds == {"can0"}
PcanIds == {"pcan_usb1", "pcan_aux"}
OtherIds == {"usb0"}
InterfaceIds == VcanIds \cup CanIds \cup PcanIds \cup OtherIds

\* target_os of the build
Platforms == {"linux", "windows"}

(* ------------------------------ frames -------------------------------- *)

\* impl From<FramePayload> for CanFrame
FromPayload(id, ext, rtr, dlc, data, chan) ==
    [id |-> id, is_extended |-> ext, is_remote |-> rtr, dlc |-> dlc,
     data |-> data, timestamp |-> 0, channel |-> chan, direction |-> "tx"]

\* the frames a caller hands to Channel::send: one converted from the payload
\* of send_message (id 0x300) and one replayed from a trace (id 0x150), which
\* still carries the timestamp, channel and direction it was logged with
InputFrames ==
    { FromPayload(768, FALSE, FALSE, 1, <<1>>, ""),
      [FromPayload(336, FALSE, FALSE, 1, <<1>>, "CAN_A")
          EXCEPT !.timestamp = 5, !.direction = "rx"] }

\* the frames a SocketCAN socket may read from the wire
WireFrames == { FromPayload(768, FALSE, FALSE, 1, <<1>>, "") }

\* Option<CanFrame>::None
NoFrame == [id |-> 0, is_extended |-> FALSE, is_remote |-> FALSE, dlc |-> 0,
            data |-> <<>>, timestamp |-> 0, channel |-> "", direction |-> "none"]

(* --------------------------- filter engine ---------------------------- *)

RECURSIVE BitAnd(_, _)
\* u8 & u8
BitAnd(a, b) ==
    IF a = 0 \/ b = 0 THEN 0
    ELSE (a % 2) * (b % 2) + 2 * BitAnd(a \div 2, b \div 2)

\* one DataByteMatch of FilterRule::DataPattern
ByteMatches(m, frame) ==
    IF m.position < Len(frame.data)
    THEN BitAnd(frame.data[m.position + 1], m.mask) = BitAnd(m.value, m.mask)
    ELSE FALSE

\* FilterRule::matches
RuleMatches(rule, frame) ==
    CASE rule.type = "IdRange" -> frame.id >= rule.min /\ frame.id <= rule.max
      [] rule.type = "IdExact" -> frame.id = rule.id
      [] rule.type = "DataPattern" ->
            \A i \in 1..Len(rule.pattern) : ByteMatches(rule.pattern[i], frame)
      [] rule.type = "DlcRange" -> frame.dlc >= rule.min /\ frame.dlc <= rule.max
      [] rule.type = "Direction" ->
            (frame.direction = "rx" /\ rule.rx) \/ (frame.direction = "tx" /\ rule.tx)
      [] rule.type = "ExtendedId" -> frame.is_extended = rule.extended
      [] rule.type = "RemoteFrame" -> frame.is_remote = rule.remote

\* matches without the early return for an empty rule list
FilterSetMatches_NoEmptyCase(fs, frame) ==
    IF fs.logic = "And"
    THEN \A i \in 1..Len(fs.rules) : RuleMatches(fs.rules[i], frame)
    ELSE \E i \in 1..Len(fs.rules) : RuleMatches(fs.rules[i], frame)

\* matches that treats FilterLogic::Or as FilterLogic::And
FilterSetMatches_OrAsAnd(fs, frame) ==
    IF Len(fs.rules) = 0 THEN TRUE
    ELSE \A i \in 1..Len(fs.rules) : RuleMatches(fs.rules[i], frame)

\* FilterSet::matches
FilterSetMatches(fs, frame) ==
    IF Len(fs.rules) = 0 THEN TRUE
    ELSE IF fs.logic = "And"
         THEN \A i \in 1..Len(fs.rules) : RuleMatches(fs.rules[i], frame)
         ELSE \E i \in 1..Len(fs.rules) : RuleMatches(fs.rules[i], frame)

\* impl Default for FilterSet
DefaultFilterSet == [rules |-> <<>>, logic |-> "And"]

\* FilterSet{[IdRange 0x100..0x200, Direction rx only], AND}
RangeRxFilterSet ==
    [rules |-> << [type |-> "IdRange", min |-> 256, max |-> 512],
                  [type |-> "Direction", rx |-> TRUE, tx |-> FALSE] >>,
     logic |-> "And"]

\* the filter sets set_advanced_filter is called with
FilterSets == {DefaultFilterSet, RangeRxFilterSet}

(* ---------------------------- statistics ------------------------------ *)

\* BusStats::default / BusStats::new
NewStats == [tx_count |-> 0, rx_count |-> 0, error_count |-> 0]

\* BusStats::reset
ResetStats(s) == NewStats

\* record_tx that forgets the increment
RecordTx_Skip(s) == s

\* BusStats::record_tx
RecordTx(s) == [s EXCEPT !.tx_count = @ + 1]

\* BusStats::record_rx
RecordRx(s) == [s EXCEPT !.rx_count = @ + 1]

\* BusStats::record_error
RecordError(s) == [s EXCEPT !.error_count = @ + 1]

(* --------------------------- HAL back-ends ---------------------------- *)

\* Option<CanFilter>::None
NoFilter == [set |-> FALSE, id |-> 0, mask |-> 0, extended |-> FALSE]

\* the mask of CanFilter::single for a standard and for an extended id
StdMask == 2047
ExtMask == 536870911

\* CanFilter::single
CanFilterSingle(id, extended) ==
    [set |-> TRUE, id |-> id, mask |-> IF extended THEN ExtMask ELSE StdMask,
     extended |-> extended]

\* VirtualCanInterface::passes_filter
PassesFilter(iface, frame) ==
    IF ~iface.filter.set THEN TRUE
    ELSE IF iface.filter.extended # frame.is_extended THEN FALSE
    ELSE BitAnd(frame.id, iface.filter.mask)
            = BitAnd(iface.filter.id, iface.filter.mask)

\* Option<Box<dyn CanInterface>>::None
NoInterface ==
    [kind |-> "none", id |-> "", connected |-> FALSE, rx_buffer |-> <<>>,
     start_time |-> NoInstant, channel_ok |-> FALSE, filter |-> NoFilter]

\* PcanChannel::from_str(id).is_some()
PcanChannelValid(id) == id \in {"pcan_usb1"}

\* VirtualCanInterface::new
NewVirtual(id) ==
    [kind |-> "virtual", id |-> id, connected |-> FALSE, rx_buffer |-> <<>>,
     start_time |-> NoInstant, channel_ok |-> TRUE, filter |-> NoFilter]

\* SocketCanInterface::new
NewSocketCan(id) ==
    [kind |-> "socketcan", id |-> id, connected |-> FALSE, rx_buffer |-> <<>>,
     start_time |-> NoInstant, channel_ok |-> TRUE, filter |-> NoFilter]

\* PcanInterface::new
NewPcan(id) ==
    [kind |-> "pcan", id |-> id, connected |-> FALSE, rx_buffer |-> <<>>,
     start_time |-> NoInstant, channel_ok |-> PcanChannelValid(id),
     filter |-> NoFilter]

\* Instant::elapsed of an Option<Instant>, as the back-ends and the channel use it
Elapsed(start, t) == t - start

\* outcomes of an operating-system call of the SocketCAN back-end
IoOutcomes == {"ok", "fail"}

\* CanInterface::connect of the three back-ends; io is the outcome of CanSocket::open
IfaceConnect(iface, t, io) ==
    IF iface.connected
    THEN [res |-> "Err", reason |-> "Already connected", iface |-> iface]
    ELSE CASE iface.kind = "virtual" ->
                [res |-> "Ok", reason |-> "",
                 iface |-> [iface EXCEPT !.connected = TRUE, !.start_time = t,
                                         !.rx_buffer = <<>>]]
           [] iface.kind = "socketcan" ->
                IF io = "ok"
                THEN [res |-> "Ok", reason |-> "",
                      iface |-> [iface EXCEPT !.connected = TRUE, !.start_time = t]]
                ELSE [res |-> "Err", reason |-> "Failed to open SocketCAN interface",
                      iface |-> iface]
           [] OTHER ->
                IF iface.channel_ok
                THEN [res |-> "Ok", reason |-> "",
                      iface |-> [iface EXCEPT !.connected = TRUE, !.start_time = t]]
                ELSE [res |-> "Err", reason |-> "Invalid PCAN channel", iface |-> iface]

\* CanInterface::disconnect of the three back-ends
IfaceDisconnect(iface) ==
    IF ~iface.connected
    THEN [res |-> "Err", iface |-> iface]
    ELSE [res |-> "Ok",
          iface |-> [iface EXCEPT !.connected = FALSE, !.start_time = NoInstant,
                                  !.rx_buffer = <<>>]]

\* a push that never discards
PushRing_NoDrop(buffer, frame) == Append(buffer, frame)

\* the push of VirtualCanInterface::send / inject_frame onto the ring buffer
PushRing(buffer, frame) ==
    IF Len(buffer) >= RX_BUFFER_CAPACITY
    THEN Append(Tail(buffer), frame)
    ELSE Append(buffer, frame)

\* a loopback that leaves the frame's direction as the sender gave it
VirtualSend_KeepDirection(iface, frame, t) ==
    LET echo_frame ==
            [frame EXCEPT !.channel = iface.id,
                          !.timestamp = IF iface.start_time # NoInstant
                                        THEN Elapsed(iface.start_time, t)
                                        ELSE @]
    IN  IF PassesFilter(iface, echo_frame)
        THEN [iface EXCEPT !.rx_buffer = PushRing(@, echo_frame)]
        ELSE iface

\* VirtualCanInterface::send: loop the frame back as a received one
VirtualSend(iface, frame, t) ==
    LET echo_frame ==
            [frame EXCEPT !.direction = "rx", !.channel = iface.id,
                          !.timestamp = IF iface.start_time # NoInstant
                                        THEN Elapsed(iface.start_time, t)
                                        ELSE @]
    IN  IF PassesFilter(iface, echo_frame)
        THEN [iface EXCEPT !.rx_buffer = PushRing(@, echo_frame)]
        ELSE iface

\* StandardId::new(frame.id as u16) / ExtendedId::new(frame.id) accept the id
SocketCanIdValid(frame) ==
    IF frame.is_extended THEN frame.id <= 536870911
    ELSE (frame.id % 65536) <= 2047

\* CanInterface::send of the three back-ends; io is the outcome of write_frame
IfaceSend(iface, frame, t, io) ==
    IF ~iface.connected
    THEN [res |-> "Err", iface |-> iface]
    ELSE CASE iface.kind = "virtual" ->
                [res |-> "Ok", iface |-> VirtualSend(iface, frame, t)]
           [] iface.kind = "socketcan" ->
                IF SocketCanIdValid(frame) /\ io = "ok"
                THEN [res |-> "Ok", iface |-> iface]
                ELSE [res |-> "Err", iface |-> iface]
           [] OTHER ->
                IF iface.channel_ok THEN [res |-> "Ok", iface |-> iface]
                ELSE [res |-> "Err", iface |-> iface]

\* CanInterface::receive of the three back-ends; io and wire are what read_frame
\* yields: a frame off the wire ("ok"), nothing (wire = NoFrame) or an error
IfaceReceive(iface, t, io, wire) ==
    IF ~iface.connected
    THEN [res |-> "Err", frame |-> NoFrame, iface |-> iface]
    ELSE CASE iface.kind = "virtual" ->
                IF Len(iface.rx_buffer) > 0
                THEN [res |-> "Some", frame |-> Head(iface.rx_buffer),
                      iface |-> [iface EXCEPT !.rx_buffer = Tail(@)]]
                ELSE [res |-> "None", frame |-> NoFrame, iface |-> iface]
           [] iface.kind = "socketcan" ->
                IF io = "fail"
                THEN [res |-> "Err", frame |-> NoFrame, iface |-> iface]
                ELSE IF wire = NoFrame
                THEN [res |-> "None", frame |-> NoFrame, iface |-> iface]
                ELSE [res |-> "Some",
                      frame |-> [wire EXCEPT !.timestamp = Elapsed(iface.start_time, t),
                                             !.channel = iface.id,
                                             !.direction = "rx"],
                      iface |-> iface]
           [] OTHER ->
                IF iface.channel_ok
                THEN [res |-> "None", frame |-> NoFrame, iface |-> iface]
                ELSE [res |-> "Err", frame |-> NoFrame, iface |-> iface]

(* ------------------------------- state -------------------------------- *)

VARIABLES
    platform,    \* target_os the program was built for
    now,         \* the monotonic clock
    state,       \* Channel.state: [tag, reason]
    stats,       \* Channel.stats
    interface,   \* Channel.interface
    start_time,  \* Channel.start_time
    message_tx,  \* the frames published on Channel.message_tx, in order
    filter,      \* the channel's active filter set
    lock,        \* holder of the channel's RwLock write guard, or "free"
    pc,          \* position of each caller of the channel
    pending,     \* per caller: the result its Channel call is about to return
    returned,    \* the frames of the Channel::send/receive calls that returned one
    window,      \* tx_count at the start of the current run of sends and
                 \* receives, and the successful sends of the run
    epoch,       \* number of frames published before the latest successful connect
    vcan,        \* a VirtualCanInterface driven directly, as a node of a bus
    vlast,       \* the latest operation run on vcan, with its result
    vprev,       \* the operation run on vcan before the latest one
    vops,        \* number of operations run on vcan
    manager,     \* a ChannelManager: the keys of its map and its active id
    mlast,       \* the latest call on the manager and the active id before it
    fset,        \* the FilterSet FilterSet::matches is called on
    fframe,      \* the frame it is called with
    fresult,     \* whether it has returned, and what
    player,      \* the TracePlayer
    plast,       \* the latest call on the player: its result and the player before it
    prun,        \* the frames yielded by get_next_frame since the latest start()
                 \* with no other call in between
    ptasks,      \* the playback tasks spawned by start_playback
    pemit,       \* the latest frame a playback task emitted as "can-message"
    csv,         \* a sequence of frames, the CSV file the logger wrote from it
                 \* and the frames the player loaded from the file
    logging,     \* the trace logger of start_logging: its forwarding task, its
                 \* queue and its writer task
    periodic,    \* AppState.periodic_jobs, the periodic-transmit tasks and the
                 \* latest step one of them or their commands took
    rxloops,     \* the receive loops spawned by the connect commands
    dbc,         \* a DbcDatabase, the arguments of one decode_message call on
                 \* it and what the call returned
    parse,       \* the locals of one DbcParser::parse or SymParser::parse call
                 \* and the database it builds
    trc,         \* a TRC trace file, the bus mapping load_file is given and the
                 \* frames it loads
    hal,         \* a back-end driven directly: the interface, the last send
                 \* on it with its result, and the frame it put on the bus
    sx,          \* a signed signal, a payload and the build, with the 64 bits
                 \* extract_raw_value returned for them
    rot,         \* a TraceLogger started with a rotation configuration: the
                 \* locals of its writer task, the wall clock and the files
    rng,         \* a CanFilter::range call, a frame, and whether the frame
                 \* passes the filter it built
    ui,         \* the can-message events emitted to the UI for sent frames, and the
                 \* forwarding task of start_logging with its place in the fan-out
    lk          \* the commands and background tasks under way, each with its place
                 \* in the sequence of shared locks it takes

\* the channel, its callers and the clock
channelVars == <<platform, now, state, stats, interface, start_time, message_tx,
                 filter, lock, pc, pending, returned, window, epoch>>

\* the stand-alone virtual interface
vcanVars == <<vcan, vlast, vprev, vops>>

\* the channel manager
managerVars == <<manager, mlast>>

\* one call of FilterSet::matches
filterVars == <<fset, fframe, fresult>>

\* the trace player
playerVars == <<player, plast, prun>>

\* the tasks of the playback commands
playbackVars == <<ptasks, pemit>>

\* the CSV logger and player
csvVars == <<csv>>

\* the logging commands and their tasks
loggingVars == <<logging>>

\* the periodic-transmit jobs
periodicVars == <<periodic>>

\* the receive loops
rxloopVars == <<rxloops>>

\* one call of DbcDatabase::decode_message
dbcVars == <<dbc>>

\* one call of a database parser
parseVars == <<parse>>

\* one call of TracePlayer::load_file on a TRC file
trcVars == <<trc>>

\* a back-end driven directly
halVars == <<hal>>

\* one call of Signal::extract_raw_value on a signed signal
sxVars == <<sx>>

\* the writer task of a TraceLogger with rotation
rotVars == <<rot>>

\* a filter built by CanFilter::range
rngVars == <<rng>>

\* the can-message events of sent frames
uiVars == <<ui>>

\* the holders of the shared locks
lkVars == <<lk>>

vars == <<channelVars, vcanVars, managerVars, filterVars, playerVars,
          playbackVars, csvVars, loggingVars, periodicVars, rxloopVars,
          dbcVars, parseVars, trcVars, halVars, sxVars, rotVars, rngVars,
          uiVars, lkVars>>

\* what the operations of one part of the program leave alone
nonChannelVars == <<vcanVars, managerVars, filterVars, playerVars,
                    playbackVars, csvVars, loggingVars, periodicVars,
                    rxloopVars, dbcVars, parseVars, trcVars, halVars, sxVars,
                    rotVars, rngVars, uiVars, lkVars>>
nonVcanVars == <<channelVars, managerVars, filterVars, playerVars,
                 playbackVars, csvVars, loggingVars, periodicVars,
                 rxloopVars, dbcVars, parseVars, trcVars, halVars, sxVars,
                 rotVars, rngVars, uiVars, lkVars>>
nonManagerVars == <<channelVars, vcanVars, filterVars, playerVars,
                    playbackVars, csvVars, loggingVars, periodicVars,
                    rxloopVars, dbcVars, parseVars, trcVars, halVars, sxVars,
                    rotVars, rngVars, uiVars, lkVars>>
nonFilterVars == <<channelVars, vcanVars, managerVars, playerVars,
                   playbackVars, csvVars, loggingVars, periodicVars,
                   rxloopVars, dbcVars, parseVars, trcVars, halVars, sxVars,
                   rotVars, rngVars, uiVars, lkVars>>
nonPlayerVars == <<channelVars, vcanVars, managerVars, filterVars,
                   playbackVars, csvVars, loggingVars, periodicVars,
                   rxloopVars, dbcVars, parseVars, trcVars, halVars, sxVars,
                   rotVars, rngVars, uiVars, lkVars>>
nonPlaybackVars == <<vcanVars, filterVars, csvVars, loggingVars,
                     periodicVars, rxloopVars, dbcVars, parseVars, trcVars,
                     halVars, sxVars, rotVars, rngVars, uiVars, lkVars>>
nonCsvVars == <<channelVars, vcanVars, managerVars, filterVars, playerVars,
                playbackVars, loggingVars, periodicVars, rxloopVars, dbcVars,
                parseVars, trcVars, halVars, sxVars, rotVars, rngVars,
                uiVars, lkVars>>
nonLoggingVars == <<channelVars, vcanVars, managerVars, filterVars, playerVars,
                    playbackVars, csvVars, periodicVars, rxloopVars, dbcVars,
                    parseVars, trcVars, halVars, sxVars, rotVars, rngVars,
                    uiVars, lkVars>>
nonPeriodicVars == <<vcanVars, filterVars, playerVars, playbackVars, csvVars,
                     loggingVars, rxloopVars, dbcVars, parseVars, trcVars,
                     halVars, sxVars, rotVars, rngVars, uiVars, lkVars>>
nonRxloopVars == <<vcanVars, managerVars, filterVars, playerVars, playbackVars,
                   csvVars, loggingVars, periodicVars, dbcVars, parseVars,
                   trcVars, halVars, sxVars, rotVars, rngVars, uiVars,
                   lkVars>>
nonDbcVars == <<channelVars, vcanVars, managerVars, filterVars, playerVars,
                playbackVars, csvVars, loggingVars, periodicVars, rxloopVars,
                parseVars, trcVars, halVars, sxVars, rotVars, rngVars,
                uiVars, lkVars>>
nonParseVars == <<channelVars, vcanVars, managerVars, filterVars, playerVars,
                  playbackVars, csvVars, loggingVars, periodicVars, rxloopVars,
                  dbcVars, trcVars, halVars, sxVars, rotVars, rngVars,
                  uiVars, lkVars>>
nonTrcVars == <<channelVars, vcanVars, managerVars, filterVars, playerVars,
                playbackVars, csvVars, loggingVars, periodicVars, rxloopVars,
                dbcVars, parseVars, halVars, sxVars, rotVars, rngVars,
                uiVars, lkVars>>
nonHalVars == <<channelVars, vcanVars, managerVars, filterVars, playerVars,
                playbackVars, csvVars, loggingVars, periodicVars, rxloopVars,
                dbcVars, parseVars, trcVars, sxVars, rotVars, rngVars,
                uiVars, lkVars>>
nonSxVars == <<channelVars, vcanVars, managerVars, filterVars, playerVars,
               playbackVars, csvVars, loggingVars, periodicVars, rxloopVars,
               dbcVars, parseVars, trcVars, halVars, rotVars, rngVars,
               uiVars, lkVars>>
nonRotVars == <<channelVars, vcanVars, managerVars, filterVars, playerVars,
                playbackVars, csvVars, loggingVars, periodicVars, rxloopVars,
                dbcVars, parseVars, trcVars, halVars, sxVars, rngVars,
                uiVars, lkVars>>

nonRngVars == <<channelVars, vcanVars, managerVars, filterVars, playerVars,
                playbackVars, csvVars, loggingVars, periodicVars, rxloopVars,
                dbcVars, parseVars, trcVars, halVars, sxVars, rotVars,
                uiVars, lkVars>>

nonUiVars == <<channelVars, vcanVars, managerVars, filterVars, playerVars,
               playbackVars, csvVars, loggingVars, periodicVars, rxloopVars,
               dbcVars, parseVars, trcVars, halVars, sxVars, rotVars,
               rngVars, lkVars>>
nonChannelUiVars == <<vcanVars, managerVars, filterVars, playerVars,
                      playbackVars, csvVars, loggingVars, periodicVars,
                      rxloopVars, dbcVars, parseVars, trcVars, halVars,
                      sxVars, rotVars, rngVars, lkVars>>

nonLkVars == <<channelVars, vcanVars, managerVars, filterVars, playerVars,
               playbackVars, csvVars, loggingVars, periodicVars, rxloopVars,
               dbcVars, parseVars, trcVars, halVars, sxVars, rotVars, rngVars,
               uiVars>>

\* the tasks that call into the channel: the connect command, send_message,
\* a periodic-transmit job and the receive loop
Callers == {"connect", "send_message", "periodic", "rxloop"}

Senders == {"send_message", "periodic"}

\* ChannelState without its payload
Tag(t) == [tag |-> t, reason |-> ""]

\* what a caller can observe of the channel
Snapshot ==
    [state |-> state, interface |-> interface, stats |-> stats,
     start_time |-> start_time, message_tx |-> message_tx]

\* the snapshot of a channel fresh from Channel::new
NewSnapshot ==
    [state |-> Tag("Disconnected"), interface |-> NoInterface, stats |-> NewStats,
     start_time |-> NoInstant, message_tx |-> <<>>]

NoPending == [res |-> "none", frame |-> NoFrame, pre |-> NewSnapshot]

\* Channel::new and AppState::default
ChannelInit ==
    /\ platform \in Platforms
    /\ now = 0
    /\ state = Tag("Disconnected")
    /\ stats = NewStats
    /\ interface = NoInterface
    /\ start_time = NoInstant
    /\ message_tx = <<>>
    /\ filter = DefaultFilterSet
    /\ lock = "free"
    /\ pc = [t \in Callers |-> "idle"]
    /\ pending = [t \in Callers |-> NoPending]
    /\ returned = <<>>
    /\ window = [initial |-> 0, n |-> 0]
    /\ epoch = 0

\* no operation
NoOp == [op |-> "none", arg |-> NoFrame, res |-> "none", out |-> NoFrame,
         len |-> 0, filtered |-> FALSE]

\* VirtualCanInterface::new("vcan0"), no operation run on it yet
VcanNew ==
    /\ vcan = NewVirtual("vcan0")
    /\ vlast = NoOp
    /\ vprev = NoOp
    /\ vops = 0

\* Option<String>::None
NoChannel == ""

\* ChannelManager::new, no call made on it yet
ManagerNew ==
    /\ manager = [channels |-> {}, active_channel |-> NoChannel]
    /\ mlast = [op |-> "none", id |-> NoChannel, active_before |-> NoChannel]

\* FilterSet::matches has not been called
NoResult == [done |-> FALSE, value |-> FALSE]

\* FilterSet::default() and a frame from send_message, no call made
FilterNew ==
    /\ fset = DefaultFilterSet
    /\ fframe = FromPayload(768, FALSE, FALSE, 1, <<1>>, "")
    /\ fresult = NoResult

\* playback_speed 1.0, in tenths
DefaultSpeed == 10

\* TracePlayer::new
NewPlayer ==
    [frames |-> <<>>, current_index |-> 0, playback_speed |-> DefaultSpeed,
     state |-> "Stopped", start_time |-> NoInstant, playback_start_timestamp |-> 0]

\* no start() whose frames are being pulled
NoRun == [active |-> FALSE, from |-> 0, out |-> <<>>, ended |-> FALSE]

\* TracePlayer::new, no call made on it yet
PlayerNew ==
    /\ player = NewPlayer
    /\ plast = [op |-> "none", res |-> "none", out |-> NoFrame, delay |-> 0,
                before |-> NewPlayer]
    /\ prun = NoRun

\* at most MaxTasks playback tasks are alive at a time
MaxTasks == 1

\* no task in the slot
NoTask == [pc |-> "none", frame |-> NoFrame]

\* start_playback has spawned no task
PlaybackNew ==
    /\ ptasks = [i \in 1..MaxTasks |-> NoTask]
    /\ pemit = NoFrame

\* no frame logged, no file written, nothing loaded
NoCsv == [stage |-> "new", logged |-> <<>>, file |-> <<>>, loaded |-> <<>>]

\* start_logging has not been called
CsvNew == csv = NoCsv

\* AppState.trace_logger is None: no forwarding task, no writer task
NoLogging ==
    [stage |-> "idle", bursts |-> 0, published |-> 0, forwarder |-> "none",
     forwarded |-> 0, logger_tx |-> FALSE, writer |-> "none", written |-> 0,
     flushed |-> 0, failed |-> FALSE, at_stop |-> 0]

\* start_logging has not been called
LoggingNew == logging = NoLogging

\* at most MaxJobs periodic-transmit jobs are started in one behaviour
MaxJobs == 1

\* the job ids start_periodic_transmit hands out, and one it never did
JobIds == 1..MaxJobs
UnknownJob == 0

\* no task for the job id
NoJob == [pc |-> "none", frame |-> NoFrame, cancel |-> FALSE, sent_after |-> 0,
          why |-> ""]

\* AppState.periodic_jobs is empty and no job was started
PeriodicNew ==
    periodic = [registry |-> {}, started |-> 0, tasks |-> [j \in JobIds |-> NoJob],
                last |-> [op |-> "none", id |-> UnknownJob]]

\* at most MaxLoops receive loops are spawned in one behaviour
MaxLoops == 2

\* no receive loop and no statistics ticker in the slot
NoLoop == [pc |-> "none", kind |-> "none", ticker |-> "none"]

\* no connect command has spawned a receive loop or a statistics ticker
RxloopNew == rxloops = [i \in 1..MaxLoops |-> NoLoop]

\* DbcDatabase::default()
EmptyDatabase == [messages |-> <<>>, value_tables |-> <<>>]

\* AppState.dbc_databases is empty and decode_message has not been called
DbcNew ==
    dbc = [db |-> EmptyDatabase, message_id |-> 0, data |-> <<>>,
           done |-> FALSE, result |-> <<>>]

\* Option::None of a message id or a dlc
NoNumber == -1

\* Option::None of the bus-to-channel mapping
NoMapping == [some |-> FALSE, map |-> <<>>]

\* no TRC file is loaded
TrcNew ==
    trc = [header |-> [start |-> NoNumber, lines |-> <<>>], rows |-> <<>>,
           mapping |-> NoMapping, done |-> FALSE, frames |-> <<>>]

\* the locals of a parser at the start of parse, for a file of the format
ParseStart(format) ==
    [format |-> format, read |-> 0, done |-> FALSE, db |-> EmptyDatabase,
     signal_definitions |-> <<>>, value_tables |-> <<>>,
     current_message_id |-> NoNumber, current_message_name |-> "",
     current_message_dlc |-> NoNumber, current_message_extended |-> FALSE,
     in_signals_section |-> FALSE, in_sendreceive_section |-> FALSE]

\* no parser is running
ParseNew == parse = ParseStart("none")

\* no back-end is driven directly
HalNew ==
    hal = [iface |-> NoInterface, sends |-> 0, res |-> "none", arg |-> NoFrame,
           wire |-> NoFrame]

\* no signed signal is being extracted
SxNew ==
    sx = [length |-> 1, start_bit |-> 0, data |-> <<>>, build |-> "none",
          done |-> FALSE, result |-> [some |-> FALSE, panic |-> FALSE, bits |-> <<>>]]

\* TraceLoggerConfig without limits
NoRotation == [auto_split |-> FALSE, max_file_size_mb |-> NoNumber,
               max_file_duration_sec |-> NoNumber]

\* no TraceLogger with rotation is started
RotNew ==
    rot = [config |-> NoRotation, task |-> "none", clock |-> 0, start_time |-> 0,
           frame_count |-> 0, current_file_size |-> 0, files |-> <<>>]

\* no filter range is asked for
RngNew ==
    rng = [start |-> 0, end |-> 0, extended |-> FALSE, frame |-> NoFrame,
           done |-> FALSE, filter |-> NoFilter, passes |-> FALSE]

\* no forwarding task and no can-message event
UiNew == ui = [forwarder |-> "none", next |-> 1, events |-> <<>>]

\* a command slot or a background task that runs nothing
NoProc == [cmd |-> "none", sec |-> 0, held |-> 0]

\* the command slots of the runtime and the background tasks
Slots == {"cmd1", "cmd2"}
Tasks == {"rx", "ticker", "periodic", "playback"}

\* no command is running and no task is spawned
LkNew == lk = [p \in Slots \cup Tasks |-> NoProc]

\* the program after start-up
Init ==
    /\ ChannelInit
    /\ VcanNew
    /\ ManagerNew
    /\ FilterNew
    /\ PlayerNew
    /\ LkNew
    /\ UiNew
    /\ RngNew
    /\ RotNew
    /\ SxNew
    /\ HalNew
    /\ TrcNew
    /\ ParseNew
    /\ DbcNew
    /\ RxloopNew
    /\ PeriodicNew
    /\ LoggingNew
    /\ CsvNew
    /\ PlaybackNew

\* a write lock that is granted while another caller holds it
CanAcquire_Shared(l) == TRUE

\* RwLock::write can be granted
CanAcquire(l) == l = "free"

(* ------------------------------ connect ------------------------------- *)

\* the back-end selection of Channel::connect: by prefix of the interface id,
\* with the early returns of the platform's build
SelectBackend(iid, os) ==
    IF iid \in VcanIds
    THEN [res |-> "Ok", reason |-> "", iface |-> NewVirtual(iid)]
    ELSE IF iid \in CanIds
    THEN IF os = "linux"
         THEN [res |-> "Ok", reason |-> "", iface |-> NewSocketCan(iid)]
         ELSE [res |-> "Err", reason |-> "SocketCAN is only available on Linux",
               iface |-> NoInterface]
    ELSE IF iid \in PcanIds
    THEN IF os = "linux"
         THEN [res |-> "Err",
               reason |-> "On Linux, PCAN devices should be accessed via SocketCAN",
               iface |-> NoInterface]
         ELSE [res |-> "Ok", reason |-> "", iface |-> NewPcan(iid)]
    ELSE [res |-> "Err", reason |-> "Unknown interface type", iface |-> NoInterface]

\* Channel::connect up to the back-end's connect: the caller takes the write
\* lock, the state becomes Connecting and the back-end is created and stored,
\* or the call is about to return early with an error
ConnectBegin(iid) ==
    /\ CanAcquire(lock)
    /\ pc["connect"] = "idle"
    /\ LET sel == SelectBackend(iid, platform) IN
       /\ state' = Tag("Connecting")
       /\ interface' = IF sel.res = "Err" THEN interface ELSE sel.iface
       /\ pc' = [pc EXCEPT !["connect"] =
                    IF sel.res = "Err" THEN "ret" ELSE "connecting"]
       /\ pending' = [pending EXCEPT !["connect"] =
                         [res |-> IF sel.res = "Err" THEN "Err" ELSE "none",
                          frame |-> NoFrame, pre |-> Snapshot]]
    /\ lock' = "connect"
    /\ window' = [initial |-> stats.tx_count, n |-> 0]
    /\ UNCHANGED <<platform, now, stats, start_time, message_tx, filter, returned,
                   epoch>>
    /\ UNCHANGED nonChannelVars

\* Channel::connect from the back-end's connect to the result it is about to
\* return
ConnectFinish(io) ==
    /\ pc["connect"] = "connecting"
    /\ IF interface.kind # "none"
       THEN LET r == IfaceConnect(interface, now, io) IN
            IF r.res = "Ok"
            THEN /\ interface' = r.iface
                 /\ state' = Tag("Connected")
                 /\ start_time' = now
                 /\ stats' = ResetStats(stats)
                 /\ epoch' = Len(message_tx)
                 /\ pending' = [pending EXCEPT !["connect"].res = "Ok"]
            ELSE /\ state' = [tag |-> "Error", reason |-> r.reason]
                 /\ interface' = NoInterface
                 /\ pending' = [pending EXCEPT !["connect"].res = "Err"]
                 /\ UNCHANGED <<start_time, stats, epoch>>
       ELSE /\ pending' = [pending EXCEPT !["connect"].res = "Err"]
            /\ UNCHANGED <<interface, state, start_time, stats, epoch>>
    /\ pc' = [pc EXCEPT !["connect"] = "ret"]
    /\ window' = [initial |-> stats'.tx_count, n |-> 0]
    /\ UNCHANGED <<platform, now, message_tx, filter, lock, returned>>
    /\ UNCHANGED nonChannelVars

\* Channel::connect returns to the connect command, which drops the write lock
ConnectReturn ==
    /\ pc["connect"] = "ret"
    /\ lock' = "free"
    /\ pc' = [pc EXCEPT !["connect"] = "idle"]
    /\ pending' = [pending EXCEPT !["connect"] = NoPending]
    /\ UNCHANGED <<platform, now, state, stats, interface, start_time,
                   message_tx, filter, returned, window, epoch>>
    /\ UNCHANGED nonChannelVars

(* ----------------------------- disconnect ----------------------------- *)

\* Channel::disconnect, called by disconnect / disconnect_channel under the
\* write lock
Disconnect ==
    /\ CanAcquire(lock)
    /\ LET r == IfaceDisconnect(interface) IN
       IF interface.kind # "none" /\ r.res = "Err"
       THEN UNCHANGED <<interface, state, start_time>>
       ELSE /\ interface' = NoInterface
            /\ state' = Tag("Disconnected")
            /\ start_time' = NoInstant
    /\ window' = [initial |-> stats.tx_count, n |-> 0]
    /\ UNCHANGED <<platform, now, stats, message_tx, filter, lock, pc,
                   pending, returned, epoch>>
    /\ UNCHANGED nonChannelVars

(* -------------------------------- send -------------------------------- *)

\* Channel::send without the test of the connection state
ChannelSend_Unguarded(frame, io) ==
    IF interface.kind = "none"
    THEN [res |-> "Err", frame |-> NoFrame, iface |-> interface, stats |-> stats,
          message_tx |-> message_tx]
    ELSE LET r == IfaceSend(interface, frame, now, io)
             sent_frame ==
                 [frame EXCEPT !.direction = "tx", !.channel = ChannelId,
                               !.timestamp = IF start_time # NoInstant
                                             THEN Elapsed(start_time, now)
                                             ELSE @]
         IN  IF r.res = "Err"
             THEN [res |-> "Err", frame |-> NoFrame, iface |-> r.iface,
                   stats |-> stats, message_tx |-> message_tx]
             ELSE [res |-> "Ok", frame |-> sent_frame, iface |-> r.iface,
                   stats |-> RecordTx(stats),
                   message_tx |-> Append(message_tx, sent_frame)]

\* Channel::send up to and including the publication on the fan-out; io is the
\* outcome of the back-end's write
ChannelSend(frame, io) ==
    IF state.tag # "Connected"
    THEN [res |-> "Err", frame |-> NoFrame, iface |-> interface, stats |-> stats,
          message_tx |-> message_tx]
    ELSE IF interface.kind = "none"
    THEN [res |-> "Err", frame |-> NoFrame, iface |-> interface, stats |-> stats,
          message_tx |-> message_tx]
    ELSE LET r == IfaceSend(interface, frame, now, io)
             sent_frame ==
                 [frame EXCEPT !.direction = "tx", !.channel = ChannelId,
                               !.timestamp = IF start_time # NoInstant
                                             THEN Elapsed(start_time, now)
                                             ELSE @]
         IN  IF r.res = "Err"
             THEN [res |-> "Err", frame |-> NoFrame, iface |-> r.iface,
                   stats |-> stats, message_tx |-> message_tx]
             ELSE [res |-> "Ok", frame |-> sent_frame, iface |-> r.iface,
                   stats |-> RecordTx(stats),
                   message_tx |-> Append(message_tx, sent_frame)]

\* send_message, and a tick of a periodic-transmit job on a Connected channel:
\* the caller takes the channel's write lock and runs Channel::send
SendCall(t, frame, io) ==
    /\ t \in Senders
    /\ CanAcquire(lock)
    /\ pc[t] = "idle"
    /\ t = "periodic" => state.tag = "Connected"
    /\ LET r == ChannelSend(frame, io) IN
       /\ r.res = "Ok" => Len(message_tx) < MaxPub
       /\ interface' = r.iface
       /\ stats' = r.stats
       /\ message_tx' = r.message_tx
       /\ pending' = [pending EXCEPT ![t] =
                         [res |-> r.res, frame |-> r.frame, pre |-> NewSnapshot]]
    /\ lock' = t
    /\ pc' = [pc EXCEPT ![t] = "ret"]
    /\ UNCHANGED <<platform, now, state, start_time, filter, returned,
                   window, epoch>>
    /\ UNCHANGED nonChannelVars

\* Channel::send returns to its caller, which drops the write lock
SendReturn(t) ==
    /\ t \in Senders
    /\ pc[t] = "ret"
    /\ returned' = IF pending[t].res = "Ok"
                   THEN Append(returned, pending[t].frame)
                   ELSE returned
    /\ window' = IF pending[t].res = "Ok"
                 THEN [window EXCEPT !.n = @ + 1]
                 ELSE window
    /\ lock' = "free"
    /\ pc' = [pc EXCEPT ![t] = "idle"]
    /\ pending' = [pending EXCEPT ![t] = NoPending]
    /\ UNCHANGED <<platform, now, state, stats, interface, start_time,
                   message_tx, filter, epoch>>
    /\ UNCHANGED nonChannelVars

(* ------------------------------ receive ------------------------------- *)

\* Channel::receive that leaves the back-end's channel name on the frame
ChannelReceive_KeepChannel(io, wire) ==
    IF state.tag # "Connected"
    THEN [res |-> "None", frame |-> NoFrame, iface |-> interface, stats |-> stats,
          message_tx |-> message_tx]
    ELSE IF interface.kind = "none"
    THEN [res |-> "None", frame |-> NoFrame, iface |-> interface, stats |-> stats,
          message_tx |-> message_tx]
    ELSE LET r == IfaceReceive(interface, now, io, wire) IN
         CASE r.res = "Some" ->
                LET frame == [r.frame EXCEPT
                                 !.direction = "rx",
                                 !.timestamp = IF start_time # NoInstant
                                               THEN Elapsed(start_time, now)
                                               ELSE @]
                IN  [res |-> "Some", frame |-> frame, iface |-> r.iface,
                     stats |-> RecordRx(stats),
                     message_tx |-> Append(message_tx, frame)]
           [] r.res = "None" ->
                [res |-> "None", frame |-> NoFrame, iface |-> r.iface,
                 stats |-> stats, message_tx |-> message_tx]
           [] OTHER ->
                [res |-> "Err", frame |-> NoFrame, iface |-> r.iface,
                 stats |-> RecordError(stats), message_tx |-> message_tx]

\* Channel::receive up to and including the publication on the fan-out
ChannelReceive(io, wire) ==
    IF state.tag # "Connected"
    THEN [res |-> "None", frame |-> NoFrame, iface |-> interface, stats |-> stats,
          message_tx |-> message_tx]
    ELSE IF interface.kind = "none"
    THEN [res |-> "None", frame |-> NoFrame, iface |-> interface, stats |-> stats,
          message_tx |-> message_tx]
    ELSE LET r == IfaceReceive(interface, now, io, wire) IN
         CASE r.res = "Some" ->
                LET frame == [r.frame EXCEPT
                                 !.direction = "rx", !.channel = ChannelId,
                                 !.timestamp = IF start_time # NoInstant
                                               THEN Elapsed(start_time, now)
                                               ELSE @]
                IN  [res |-> "Some", frame |-> frame, iface |-> r.iface,
                     stats |-> RecordRx(stats),
                     message_tx |-> Append(message_tx, frame)]
           [] r.res = "None" ->
                [res |-> "None", frame |-> NoFrame, iface |-> r.iface,
                 stats |-> stats, message_tx |-> message_tx]
           [] OTHER ->
                [res |-> "Err", frame |-> NoFrame, iface |-> r.iface,
                 stats |-> RecordError(stats), message_tx |-> message_tx]

\* one poll of the receive loop: the loop takes the channel's write lock and
\* runs Channel::receive
RecvCall(io, wire) ==
    /\ CanAcquire(lock)
    /\ pc["rxloop"] = "idle"
    /\ LET r == ChannelReceive(io, wire) IN
       /\ r.res = "Some" => Len(message_tx) < MaxPub
       /\ r.res = "Err" => stats.error_count < MaxErrors
       /\ interface' = r.iface
       /\ stats' = r.stats
       /\ message_tx' = r.message_tx
       /\ pending' = [pending EXCEPT !["rxloop"] =
                         [res |-> r.res, frame |-> r.frame, pre |-> NewSnapshot]]
    /\ lock' = "rxloop"
    /\ pc' = [pc EXCEPT !["rxloop"] = "ret"]
    /\ UNCHANGED <<platform, now, state, start_time, filter, returned,
                   window, epoch>>
    /\ UNCHANGED nonChannelVars

\* Channel::receive returns to the loop, which drops the write lock
RecvReturn ==
    /\ pc["rxloop"] = "ret"
    /\ returned' = IF pending["rxloop"].res = "Some"
                   THEN Append(returned, pending["rxloop"].frame)
                   ELSE returned
    /\ lock' = "free"
    /\ pc' = [pc EXCEPT !["rxloop"] = "idle"]
    /\ pending' = [pending EXCEPT !["rxloop"] = NoPending]
    /\ UNCHANGED <<platform, now, state, stats, interface, start_time,
                   message_tx, filter, window, epoch>>
    /\ UNCHANGED nonChannelVars

(* ------------------------- filter and clock --------------------------- *)

\* set_advanced_filter: Channel::set_filter stores the filter set
SetFilter(fs) ==
    /\ CanAcquire(lock)
    /\ filter # fs
    /\ filter' = fs
    /\ window' = [initial |-> stats.tx_count, n |-> 0]
    /\ UNCHANGED <<platform, now, state, stats, interface, start_time,
                   message_tx, lock, pc, pending, returned, epoch>>
    /\ UNCHANGED nonChannelVars

\* clear_messages: the command takes the active channel's write lock and
\* resets its statistics
ClearMessages ==
    /\ CanAcquire(lock)
    /\ stats' = ResetStats(stats)
    /\ window' = [initial |-> stats'.tx_count, n |-> 0]
    /\ UNCHANGED <<platform, now, state, interface, start_time,
                   message_tx, filter, lock, pc, pending, returned, epoch>>
    /\ UNCHANGED nonChannelVars

\* the monotonic clock advances
Tick ==
    /\ now < MaxTime
    /\ now' = now + 1
    /\ UNCHANGED <<platform, state, stats, interface, start_time,
                   message_tx, filter, lock, pc, pending, returned, window,
                   epoch>>
    /\ UNCHANGED nonChannelVars

Next ==
    \/ \E iid \in InterfaceIds : ConnectBegin(iid)
    \/ ConnectReturn
    \/ \E io \in IoOutcomes : ConnectFinish(io)
    \/ Disconnect
    \/ \E t \in Senders, f \in InputFrames, io \in IoOutcomes : SendCall(t, f, io)
    \/ \E t \in Senders : SendReturn(t)
    \/ \E io \in IoOutcomes, w \in WireFrames \cup {NoFrame} : RecvCall(io, w)
    \/ RecvReturn
    \/ ClearMessages
    \/ Tick

Spec == Init /\ [][Next]_vars

\* the program with set_advanced_filter storing a filter set in the channel
NextWithFilter ==
    \/ Next
    \/ \E fs \in FilterSets : SetFilter(fs)

SpecWithFilter == Init /\ [][NextWithFilter]_vars

(* ------------------------------ properties ---------------------------- *)

\* a step in which caller t runs Channel::send or Channel::receive
CallRuns(t) == pc[t] = "idle" /\ pc'[t] = "ret"

\* the state changes the lifecycle allows
AllowedEdges ==
    { <<"Disconnected", "Connecting">>, <<"Connecting", "Connected">>,
      <<"Connecting", "Error">>, <<"Connected", "Disconnected">>,
      <<"Error", "Disconnected">> }

\* C1: every change of the channel's state follows one of the edges
\* Disconnected->Connecting, Connecting->Connected, Connecting->Error,
\* Connected->Disconnected, Error->Disconnected.
C1_StateEdges ==
    [][state'.tag # state.tag => <<state.tag, state'.tag>> \in AllowedEdges]_vars

\* C2: between calls the channel holds a back-end exactly when its state is
\* Connecting or Connected.
C2_BackendIffLive ==
    lock = "free" =>
        ((interface.kind # "none") <=> (state.tag \in {"Connecting", "Connected"}))

\* C3: connect on a Connected channel returns an error and leaves state,
\* back-end, statistics and connect-time instant as they were.
C3_DoubleConnectRefused ==
    (pc["connect"] = "ret" /\ pending["connect"].pre.state.tag = "Connected")
        => (pending["connect"].res = "Err" /\ Snapshot = pending["connect"].pre)

\* C4: whenever connect returns an error the channel is in state Error and
\* holds no back-end.
C4_ConnectErrorState ==
    (pc["connect"] = "ret" /\ pending["connect"].res = "Err")
        => (state.tag = "Error" /\ interface = NoInterface)

\* C5: Channel::send on a channel that is not Connected returns an error and
\* leaves tx count, fan-out and the back-end (with its receive buffer)
\* unchanged.
C5_SendRefused ==
    [][\A t \in Senders :
          (CallRuns(t) /\ state.tag # "Connected")
            => (/\ pending'[t].res = "Err"
                /\ stats' = stats
                /\ message_tx' = message_tx
                /\ interface' = interface)]_vars

\* C5 witness: a send is refused on a channel stuck in Connecting that still
\* holds a live back-end.
C5_Witness ==
    /\ pc["send_message"] = "ret" /\ pending["send_message"].res = "Err"
    /\ state.tag = "Connecting" /\ interface.connected

\* C6: Channel::receive on a channel that is not Connected returns an error
\* value, and a channel in Error leaves that state only through disconnect.
C6_ReceiveRefused ==
    [][/\ (CallRuns("rxloop") /\ state.tag # "Connected")
            => pending'["rxloop"].res = "Err"
       /\ state.tag = "Error" => state'.tag \in {"Error", "Disconnected"}]_vars

\* the sends that have counted their frame and are about to return
SendsInFlight ==
    Cardinality({t \in Senders : pc[t] = "ret" /\ pending[t].res = "Ok"})

NonDecreasing(frames) ==
    \A i, j \in 1..Len(frames) : i < j => frames[i].timestamp <= frames[j].timestamp

\* C8 as stated: every published frame carries the channel's id and a
\* timestamp >= 0, and timestamps never decrease over the channel's whole
\* life, reconnects included.
C8_MonotoneForever ==
    /\ \A i \in 1..Len(message_tx) :
          message_tx[i].channel = ChannelId /\ message_tx[i].timestamp >= 0
    /\ NonDecreasing(message_tx)

\* C8 amended: every published frame carries the channel's id and a
\* timestamp >= 0, and timestamps never decrease among the frames published
\* since the latest successful connect.
C8_MonotonePerConnection ==
    /\ \A i \in 1..Len(message_tx) :
          message_tx[i].channel = ChannelId /\ message_tx[i].timestamp >= 0
    /\ NonDecreasing(SubSeq(message_tx, epoch + 1, Len(message_tx)))

\* C8 witness: two frames of one connection, a received one after a sent
\* one, the second with a later timestamp.
C8_Witness ==
    /\ Len(message_tx) = epoch + 2
    /\ message_tx[epoch + 1].direction = "tx"
    /\ message_tx[epoch + 2].direction = "rx"
    /\ message_tx[epoch + 1].timestamp < message_tx[epoch + 2].timestamp

\* C9: on the receive path a frame that does not match the active filter
\* set is counted but neither published nor returned, and a matching frame
\* is counted, published and returned.
C9_FilterOnReceive ==
    [][(CallRuns("rxloop") /\ stats'.rx_count # stats.rx_count)
         => /\ stats'.rx_count = stats.rx_count + 1
            /\ message_tx' # message_tx
                 => FilterSetMatches(filter, message_tx'[Len(message_tx')])
            /\ pending'["rxloop"].res = "Some"
                 => FilterSetMatches(filter, pending'["rxloop"].frame)
            /\ pending'["rxloop"].res = "Some" <=> message_tx' # message_tx]_vars

\* s is a prefix of t
IsPrefix(s, t) == Len(s) <= Len(t) /\ SubSeq(t, 1, Len(s)) = s

\* C10: the frames on the fan-out are in the order in which the
\* Channel::send / Channel::receive calls that published them returned.
C10_FanoutOrder ==
    /\ IsPrefix(returned, message_tx)
    /\ lock = "free" => returned = message_tx

\* C10 witness: a send call and then a receive call have published and
\* returned.
C10_Witness ==
    /\ lock = "free" /\ Len(returned) = 2
    /\ returned[1].direction = "tx" /\ returned[2].direction = "rx"

\* C11: while a channel stays Connected its tx, rx and error counts never
\* decrease, whatever command runs.
C11_CountersMonotone ==
    [][(state.tag = "Connected" /\ state'.tag = "Connected")
         => /\ stats'.tx_count >= stats.tx_count
            /\ stats'.rx_count >= stats.rx_count
            /\ stats'.error_count >= stats.error_count]_vars

(* ------------------- the virtual interface on its own ----------------- *)

\* the frames handed to the virtual interface: 0x123 and 0x200 with standard
\* ids and 0x200 with an extended id
VcanFrames ==
    { FromPayload(291, FALSE, FALSE, 1, <<1>>, ""),
      FromPayload(512, FALSE, FALSE, 1, <<1>>, ""),
      FromPayload(512, TRUE, FALSE, 1, <<1>>, "") }

\* the filters VirtualCanInterface::set_filter is called with
VcanFilters == {NoFilter, CanFilterSingle(512, FALSE)}

\* the nodes of the virtual bus that broadcast
BusSenders == {"vcan0", "vcan1"}

\* the i-th frame of a buffer filled by sends of frames with ids 1, 2, ...
\* right after the connect
Filler(i) ==
    [FromPayload(i, FALSE, FALSE, 1, <<1>>, "")
        EXCEPT !.direction = "rx", !.channel = "vcan0"]

\* a connected virtual interface whose buffer holds k looped-back frames
Prefilled(k) ==
    [NewVirtual("vcan0") EXCEPT !.connected = TRUE, !.start_time = 0,
                                !.rx_buffer = [i \in 1..k |-> Filler(i)]]

\* the fill levels the interface starts from
Fills == {0, RX_BUFFER_CAPACITY - 1, RX_BUFFER_CAPACITY}

\* a virtual interface fresh from new, or connected with frames buffered
VcanInit ==
    /\ ChannelInit
    /\ platform = "linux"
    /\ vcan \in {NewVirtual("vcan0")} \cup {Prefilled(k) : k \in Fills}
    /\ vlast = NoOp
    /\ vprev = NoOp
    /\ vops = 0
    /\ ManagerNew
    /\ FilterNew
    /\ PlayerNew
    /\ LkNew
    /\ UiNew
    /\ RngNew
    /\ RotNew
    /\ SxNew
    /\ HalNew
    /\ TrcNew
    /\ ParseNew
    /\ DbcNew
    /\ RxloopNew
    /\ PeriodicNew
    /\ LoggingNew
    /\ CsvNew
    /\ PlaybackNew

\* the record of an operation run on vcan
Op(name, arg, res, out) ==
    [op |-> name, arg |-> arg, res |-> res, out |-> out,
     len |-> Len(vcan.rx_buffer), filtered |-> vcan.filter.set]

\* bookkeeping of every operation on vcan
Ran(op) ==
    /\ vops < MaxOps
    /\ vops' = vops + 1
    /\ vprev' = vlast
    /\ vlast' = op
    /\ UNCHANGED nonVcanVars

\* VirtualCanInterface::inject_frame
InjectFrame(iface, frame) == [iface EXCEPT !.rx_buffer = PushRing(@, frame)]

\* VirtualCanInterface::connect
VcanConnect ==
    LET r == IfaceConnect(vcan, now, "ok") IN
    /\ vcan' = r.iface
    /\ Ran(Op("connect", NoFrame, r.res, NoFrame))

\* VirtualCanInterface::disconnect
VcanDisconnect ==
    LET r == IfaceDisconnect(vcan) IN
    /\ vcan' = r.iface
    /\ Ran(Op("disconnect", NoFrame, r.res, NoFrame))

\* VirtualCanInterface::send
VcanSend(frame) ==
    LET r == IfaceSend(vcan, frame, now, "ok") IN
    /\ vcan' = r.iface
    /\ Ran(Op("send", frame, r.res, NoFrame))

\* VirtualCanInterface::inject_frame called from outside
VcanInject(frame) ==
    /\ vcan' = InjectFrame(vcan, frame)
    /\ Ran(Op("inject", frame, "Ok", NoFrame))

\* VirtualCanBus::broadcast, seen from the node vcan
VcanBroadcast(sender_id, frame) ==
    /\ vcan' = IF vcan.id # sender_id /\ vcan.connected
               THEN InjectFrame(vcan, frame)
               ELSE vcan
    /\ Ran(Op("broadcast", frame,
              IF vcan.id # sender_id /\ vcan.connected THEN "Ok" ELSE "Skip",
              NoFrame))

\* VirtualCanInterface::receive
VcanReceive ==
    LET r == IfaceReceive(vcan, now, "ok", NoFrame) IN
    /\ vcan' = r.iface
    /\ Ran(Op("receive", NoFrame, r.res, r.frame))

\* VirtualCanInterface::set_filter
VcanSetFilter(flt) ==
    /\ vcan' = [vcan EXCEPT !.filter = flt]
    /\ Ran(Op("set_filter", NoFrame, "Ok", NoFrame))

NextVcan ==
    \/ VcanConnect
    \/ VcanDisconnect
    \/ \E f \in VcanFrames : VcanSend(f)
    \/ \E f \in VcanFrames : VcanInject(f)
    \/ \E n \in BusSenders, f \in VcanFrames : VcanBroadcast(n, f)
    \/ VcanReceive
    \/ \E flt \in VcanFilters : VcanSetFilter(flt)

SpecVcan == VcanInit /\ [][NextVcan]_vars

\* two frames agree on what goes over the wire
SameWire(a, b) ==
    /\ a.id = b.id
    /\ a.is_extended = b.is_extended
    /\ a.is_remote = b.is_remote
    /\ a.dlc = b.dlc
    /\ a.data = b.data

\* the operations that push a frame into the receive buffer
PushOps == {"send", "inject", "broadcast"}

\* C12 as stated: a receive that directly follows a successful send of f on
\* a virtual interface with no filter set yields f on (id, is_extended,
\* is_remote, dlc, data) with direction "rx".
C12_LoopbackNext ==
    (/\ vlast.op = "receive"
     /\ vprev.op = "send" /\ vprev.res = "Ok" /\ ~vprev.filtered)
        => (/\ vlast.res = "Some"
            /\ SameWire(vlast.out, vprev.arg)
            /\ vlast.out.direction = "rx")

\* C12 amended: a receive that directly follows a successful send of f on a
\* virtual interface with no filter set and an empty receive buffer yields f
\* on (id, is_extended, is_remote, dlc, data) with direction "rx".
C12_LoopbackNextWhenEmpty ==
    (/\ vlast.op = "receive"
     /\ vprev.op = "send" /\ vprev.res = "Ok" /\ ~vprev.filtered
     /\ vprev.len = 0)
        => (/\ vlast.res = "Some"
            /\ SameWire(vlast.out, vprev.arg)
            /\ vlast.out.direction = "rx")

\* C12 witness: a frame sent into an empty buffer has been received.
C12_Witness ==
    /\ vlast.op = "receive" /\ vlast.res = "Some"
    /\ vprev.op = "send" /\ vprev.res = "Ok" /\ ~vprev.filtered
    /\ vprev.len = 0
    /\ vprev.arg.direction = "tx"

\* the latest operation pushed its frame into the buffer of vcan
Pushed ==
    /\ vlast'.op \in PushOps
    /\ vlast'.res = "Ok"
    /\ vlast'.op = "send" => PassesFilter(vcan, vlast'.arg)

\* C13: the receive buffer never holds more than 1000 frames; a push onto a
\* full buffer discards exactly the oldest frame; receive returns the
\* surviving frames in the order they were pushed.
C13_RingBuffer ==
    /\ [](Len(vcan.rx_buffer) <= RX_BUFFER_CAPACITY)
    /\ [][vops' # vops =>
            LET b == vcan.rx_buffer
                c == vcan'.rx_buffer
            IN  /\ Pushed =>
                     /\ IF Len(b) = RX_BUFFER_CAPACITY
                        THEN /\ Len(c) = RX_BUFFER_CAPACITY
                             /\ SubSeq(c, 1, Len(c) - 1) = Tail(b)
                        ELSE /\ Len(c) = Len(b) + 1
                             /\ SubSeq(c, 1, Len(b)) = b
                     /\ SameWire(c[Len(c)], vlast'.arg)
                /\ (vlast'.op = "receive" /\ vcan.connected) =>
                     IF b = <<>>
                     THEN vlast'.res = "None" /\ c = b
                     ELSE /\ vlast'.res = "Some"
                          /\ vlast'.out = Head(b)
                          /\ c = Tail(b)]_vars

\* C13 witness: a frame was pushed onto a full buffer and the receive after
\* it returned the second-oldest frame of that buffer.
C13_Witness ==
    /\ vlast.op = "receive" /\ vlast.res = "Some"
    /\ vprev.op \in PushOps /\ vprev.res = "Ok"
    /\ vprev.len = RX_BUFFER_CAPACITY
    /\ vlast.len = RX_BUFFER_CAPACITY
    /\ vlast.out = Filler(2)

\* C14: with a filter set, every path that pushes into the receive buffer
\* (loopback send, inject_frame, bus broadcast) drops a frame that fails
\* (frame.id & mask) == (filter.id & mask) with the matching extended flag,
\* and buffers a frame that satisfies it.
C14_FilterOnPush ==
    [][(/\ vops' # vops
        /\ vcan.filter.set
        /\ vlast'.op \in PushOps /\ vlast'.res = "Ok")
         => IF PassesFilter(vcan, vlast'.arg)
            THEN /\ vcan'.rx_buffer # vcan.rx_buffer
                 /\ SameWire(vcan'.rx_buffer[Len(vcan'.rx_buffer)], vlast'.arg)
            ELSE vcan'.rx_buffer = vcan.rx_buffer]_vars

(* ------------------------- the channel manager ------------------------ *)

\* the channel ids the commands name
ChannelIds == {"ch1", "ch2", "ch3", "ch4"}

\* ChannelManager::get_or_create_channel
GetOrCreateChannel(m, id) == [m EXCEPT !.channels = @ \cup {id}]

\* ChannelManager::set_active_channel
SetActiveChannel(m, id) ==
    IF id \in m.channels THEN [m EXCEPT !.active_channel = id] ELSE m

\* remove_channel that leaves the active slot alone
RemoveChannel_KeepActive(m, id) == [m EXCEPT !.channels = @ \ {id}]

\* ChannelManager::remove_channel
RemoveChannel(m, id) ==
    [m EXCEPT !.channels = @ \ {id},
              !.active_channel = IF @ = id THEN NoChannel ELSE @]

\* a call of get_or_create_channel(id)
ManagerGetOrCreate(id) ==
    /\ manager' = GetOrCreateChannel(manager, id)
    /\ mlast' = [op |-> "get_or_create", id |-> id,
                 active_before |-> manager.active_channel]
    /\ UNCHANGED nonManagerVars

\* a call of set_active_channel(id)
ManagerSetActive(id) ==
    /\ manager' = SetActiveChannel(manager, id)
    /\ mlast' = [op |-> "set_active", id |-> id,
                 active_before |-> manager.active_channel]
    /\ UNCHANGED nonManagerVars

\* a call of remove_channel(id)
ManagerRemove(id) ==
    /\ manager' = RemoveChannel(manager, id)
    /\ mlast' = [op |-> "remove", id |-> id,
                 active_before |-> manager.active_channel]
    /\ UNCHANGED nonManagerVars

NextManager ==
    \/ \E id \in ChannelIds : ManagerGetOrCreate(id)
    \/ \E id \in ChannelIds : ManagerSetActive(id)
    \/ \E id \in ChannelIds : ManagerRemove(id)

\* the program after start-up, built for Linux
ManagerInit == Init /\ platform = "linux"

SpecManager == ManagerInit /\ [][NextManager]_vars

\* C15: the manager's active id is absent or a key of the channel map;
\* set_active_channel with an unknown id changes nothing; removing the active
\* channel clears the active slot.
C15_ActiveIsKey ==
    /\ [](\/ manager.active_channel = NoChannel
          \/ manager.active_channel \in manager.channels)
    /\ [][/\ (mlast'.op = "set_active" /\ mlast'.id \notin manager.channels)
               => manager' = manager
          /\ (mlast'.op = "remove" /\ mlast'.id = manager.active_channel)
               => manager'.active_channel = NoChannel]_vars

\* C15 witness: the active channel has been removed while another channel is
\* still in the map, and the active slot is empty.
C15_Witness ==
    /\ mlast.op = "remove" /\ mlast.id = mlast.active_before
    /\ manager.channels # {}
    /\ manager.active_channel = NoChannel

(* --------------------------- FilterSet::matches ----------------------- *)

\* one rule of each kind of FilterRule
Rules ==
    { [type |-> "IdRange", min |-> 256, max |-> 512],
      [type |-> "IdExact", id |-> 336],
      [type |-> "DataPattern",
       pattern |-> << [position |-> 0, value |-> 1, mask |-> 255] >>],
      [type |-> "DlcRange", min |-> 0, max |-> 2],
      [type |-> "Direction", rx |-> TRUE, tx |-> FALSE],
      [type |-> "ExtendedId", extended |-> FALSE],
      [type |-> "RemoteFrame", remote |-> TRUE] }

\* the rule lists of at most MaxRules rules
RuleLists == UNION { [1..n -> Rules] : n \in 0..MaxRules }

\* the filter sets FilterSet::matches is checked on
FilterInputs == [rules : RuleLists, logic : {"And", "Or"}]

\* the frames FilterSet::matches is checked with
FilterFrames ==
    { [FromPayload(336, FALSE, FALSE, 3, <<1, 2, 3>>, "") EXCEPT !.direction = "rx"],
      FromPayload(336, FALSE, FALSE, 3, <<1, 2, 3>>, ""),
      [FromPayload(768, FALSE, FALSE, 3, <<2, 2, 3>>, "") EXCEPT !.direction = "rx"],
      [FromPayload(768, TRUE, TRUE, 0, <<>>, "") EXCEPT !.direction = "rx"] }

\* a filter set and a frame, FilterSet::matches not yet called
FilterInit ==
    /\ ChannelInit
    /\ platform = "linux"
    /\ VcanNew
    /\ ManagerNew
    /\ PlayerNew
    /\ LkNew
    /\ UiNew
    /\ RngNew
    /\ RotNew
    /\ SxNew
    /\ HalNew
    /\ TrcNew
    /\ ParseNew
    /\ DbcNew
    /\ RxloopNew
    /\ PeriodicNew
    /\ LoggingNew
    /\ CsvNew
    /\ PlaybackNew
    /\ fset \in FilterInputs
    /\ fframe \in FilterFrames
    /\ fresult = NoResult

\* the call fset.matches(&fframe)
FilterMatch ==
    /\ ~fresult.done
    /\ fresult' = [done |-> TRUE, value |-> FilterSetMatches(fset, fframe)]
    /\ UNCHANGED <<fset, fframe>>
    /\ UNCHANGED nonFilterVars

NextFilter == FilterMatch

SpecFilter == FilterInit /\ [][NextFilter]_vars

\* the number of rules of fset that match fframe
MatchingRules ==
    Cardinality({i \in 1..Len(fset.rules) : RuleMatches(fset.rules[i], fframe)})

\* C16: a filter set with an empty rule list matches every frame, whether
\* its logic is AND or OR.
C16_EmptyMatchesAll ==
    (fresult.done /\ Len(fset.rules) = 0) => fresult.value

\* C16 witness: an empty filter set with logic OR has been matched against
\* a frame.
C16_Witness ==
    /\ fresult.done /\ fresult.value
    /\ Len(fset.rules) = 0 /\ fset.logic = "Or"

\* C17 as stated: for every rule list, an AND set matches exactly when all
\* of its rules match the frame and an OR set exactly when at least one does.
C17_AndOrAllLists ==
    fresult.done =>
        /\ fset.logic = "And" => (fresult.value <=> MatchingRules = Len(fset.rules))
        /\ fset.logic = "Or" => (fresult.value <=> MatchingRules > 0)

\* C17 amended: for every non-empty rule list, an AND set matches exactly
\* when all of its rules match the frame and an OR set exactly when at least
\* one does.
C17_AndOrNonEmpty ==
    (fresult.done /\ Len(fset.rules) > 0) =>
        /\ fset.logic = "And" => (fresult.value <=> MatchingRules = Len(fset.rules))
        /\ fset.logic = "Or" => (fresult.value <=> MatchingRules > 0)

\* C17 witness: an OR set of two rules, exactly one of which matches the
\* frame, has matched.
C17_Witness ==
    /\ fresult.done /\ fresult.value
    /\ fset.logic = "Or" /\ Len(fset.rules) = 2 /\ MatchingRules = 1

(* ---------------------------- the trace player ------------------------ *)

\* set_speed clamps to 0.1 .. 5.0, in tenths
MinSpeed == 1
MaxSpeed == 50

\* get_next_frame caps the delay at one second, in milliseconds
MaxDelay == 1000

\* the frames of a trace file, timestamps in milliseconds: 0x100 logged at
\* 2 s and 0x200 logged at 0 s
TraceFrames ==
    { [FromPayload(256, FALSE, FALSE, 1, <<1>>, "CAN_A")
          EXCEPT !.timestamp = 2000, !.direction = "rx"],
      [FromPayload(512, FALSE, FALSE, 1, <<2>>, "CAN_A")
          EXCEPT !.timestamp = 0, !.direction = "rx"] }

\* the parsed lines of the trace files load_file is given
TraceFiles == UNION { [1..n -> TraceFrames] : n \in 0..MaxFrames }

\* the speeds set_speed is called with, in tenths
SpeedInputs == {0, 20, 100}

\* f put behind the frames of a sorted list that are not later than it
InsertByTimestamp(sorted, f) ==
    LET k == Cardinality({i \in 1..Len(sorted) : sorted[i].timestamp <= f.timestamp})
    IN  SubSeq(sorted, 1, k) \o <<f>> \o SubSeq(sorted, k + 1, Len(sorted))

RECURSIVE SortByTimestamp(_)
\* frames.sort_by(timestamp), a stable sort
SortByTimestamp(frames) ==
    IF Len(frames) = 0 THEN <<>>
    ELSE InsertByTimestamp(SortByTimestamp(SubSeq(frames, 1, Len(frames) - 1)),
                           frames[Len(frames)])

\* TracePlayer::load_file once the lines are parsed
PlayerLoad(p, parsed) ==
    [p EXCEPT !.frames = SortByTimestamp(parsed), !.current_index = 0,
              !.state = "Stopped", !.playback_start_timestamp = 0]

\* start that keeps the index wherever it is
PlayerStart_NoReset(p, t) ==
    IF Len(p.frames) = 0 THEN [res |-> "Err", p |-> p]
    ELSE [res |-> "Ok",
          p |-> [p EXCEPT !.state = "Playing", !.start_time = t,
                          !.playback_start_timestamp =
                              IF p.current_index < Len(p.frames)
                              THEN p.frames[p.current_index + 1].timestamp
                              ELSE @]]

\* TracePlayer::start
PlayerStart(p, t) ==
    IF Len(p.frames) = 0 THEN [res |-> "Err", p |-> p]
    ELSE LET index == IF p.current_index >= Len(p.frames) THEN 0
                      ELSE p.current_index
         IN  [res |-> "Ok",
              p |-> [p EXCEPT !.current_index = index, !.state = "Playing",
                              !.start_time = t,
                              !.playback_start_timestamp =
                                  p.frames[index + 1].timestamp]]

\* TracePlayer::stop
PlayerStop(p) ==
    [p EXCEPT !.state = "Stopped", !.current_index = 0, !.start_time = NoInstant]

\* pause that does not look at the state
PlayerPause_Always(p) == [p EXCEPT !.state = "Paused"]

\* TracePlayer::pause
PlayerPause(p) ==
    IF p.state = "Playing" THEN [p EXCEPT !.state = "Paused"] ELSE p

\* TracePlayer::resume
PlayerResume(p, t) ==
    IF p.state = "Paused"
    THEN [p EXCEPT !.state = "Playing",
                   !.start_time = IF @ # NoInstant THEN t - Elapsed(@, t) ELSE @]
    ELSE p

\* TracePlayer::set_speed
PlayerSetSpeed(p, speed) ==
    [p EXCEPT !.playback_speed =
        IF speed < MinSpeed THEN MinSpeed
        ELSE IF speed > MaxSpeed THEN MaxSpeed ELSE speed]

\* seek that takes the index as given
PlayerSeek_NoClamp(p, index) == [p EXCEPT !.current_index = index]

\* TracePlayer::seek
PlayerSeek(p, index) ==
    LET last == IF Len(p.frames) = 0 THEN 0 ELSE Len(p.frames) - 1
    IN  [p EXCEPT !.current_index = IF index < last THEN index ELSE last]

\* the delay get_next_frame returns with the frame at index i (from 0)
DelayAfter(p, i) ==
    IF i + 1 < Len(p.frames)
    THEN LET delta == ((p.frames[i + 2].timestamp - p.frames[i + 1].timestamp) * 10)
                          \div p.playback_speed
             d == IF delta < 0 THEN 0 ELSE delta
         IN  IF d > MaxDelay THEN MaxDelay ELSE d
    ELSE 0

\* get_next_frame that stays Playing at the end of the trace
PlayerGetNextFrame_NoStop(p) ==
    IF p.state # "Playing" \/ p.current_index >= Len(p.frames)
    THEN [res |-> "None", frame |-> NoFrame, delay |-> 0, p |-> p]
    ELSE [res |-> "Some", frame |-> p.frames[p.current_index + 1],
          delay |-> DelayAfter(p, p.current_index),
          p |-> [p EXCEPT !.current_index = @ + 1]]

\* TracePlayer::get_next_frame
PlayerGetNextFrame(p) ==
    IF p.state # "Playing"
    THEN [res |-> "None", frame |-> NoFrame, delay |-> 0, p |-> p]
    ELSE IF p.current_index >= Len(p.frames)
    THEN [res |-> "None", frame |-> NoFrame, delay |-> 0,
          p |-> [p EXCEPT !.state = "Stopped"]]
    ELSE [res |-> "Some", frame |-> p.frames[p.current_index + 1],
          delay |-> DelayAfter(p, p.current_index),
          p |-> [p EXCEPT !.current_index = @ + 1]]

\* bookkeeping of a call on the player other than start and get_next_frame
Called(op, res, p) ==
    /\ player' = p
    /\ plast' = [op |-> op, res |-> res, out |-> NoFrame, delay |-> 0,
                 before |-> player]
    /\ prun' = NoRun
    /\ UNCHANGED nonPlayerVars

\* load_file with a file whose lines parse to `parsed`
CallLoad(parsed) == Called("load_file", "Ok", PlayerLoad(player, parsed))

\* start()
CallStart ==
    LET r == PlayerStart(player, now) IN
    /\ player' = r.p
    /\ plast' = [op |-> "start", res |-> r.res, out |-> NoFrame, delay |-> 0,
                 before |-> player]
    /\ prun' = IF r.res = "Ok"
               THEN [active |-> TRUE, from |-> player.current_index,
                     out |-> <<>>, ended |-> FALSE]
               ELSE NoRun
    /\ UNCHANGED nonPlayerVars

\* stop()
CallStop == Called("stop", "Ok", PlayerStop(player))

\* pause()
CallPause == Called("pause", "Ok", PlayerPause(player))

\* resume()
CallResume == Called("resume", "Ok", PlayerResume(player, now))

\* set_speed(speed)
CallSetSpeed(speed) == Called("set_speed", "Ok", PlayerSetSpeed(player, speed))

\* seek(index)
CallSeek(index) == Called("seek", "Ok", PlayerSeek(player, index))

\* get_next_frame()
CallGetNextFrame ==
    LET r == PlayerGetNextFrame(player) IN
    /\ player' = r.p
    /\ plast' = [op |-> "get_next_frame", res |-> r.res, out |-> r.frame,
                 delay |-> r.delay, before |-> player]
    /\ prun' = IF prun.active /\ ~prun.ended
               THEN IF r.res = "Some"
                    THEN [prun EXCEPT !.out = Append(@, r.frame)]
                    ELSE [prun EXCEPT !.ended = TRUE]
               ELSE prun
    /\ UNCHANGED nonPlayerVars

NextPlayer ==
    \/ \E parsed \in TraceFiles : CallLoad(parsed)
    \/ CallStart
    \/ CallStop
    \/ CallPause
    \/ CallResume
    \/ \E speed \in SpeedInputs : CallSetSpeed(speed)
    \/ \E index \in 0..MaxFrames : CallSeek(index)
    \/ CallGetNextFrame
    \/ Tick

\* the program after start-up, built for Linux
PlayerInit == Init /\ platform = "linux"

SpecPlayer == PlayerInit /\ [][NextPlayer]_vars

\* what start() followed by get_next_frame() calls alone has yielded is the
\* loaded sequence so far, and all of it, with the player Stopped, once a
\* call has returned None
YieldsLoaded ==
    /\ IsPrefix(prun.out, player.frames)
    /\ prun.ended => (prun.out = player.frames /\ player.state = "Stopped")

\* C18 as stated: for any loaded non-empty sequence, start() followed by
\* get_next_frame() calls alone yields exactly the loaded frames in index
\* order, then None, and the state is Stopped after the None.
C18_PlaybackYieldsAll == prun.active => YieldsLoaded

\* C18 amended: the same, for a start() called while the index is zero or at
\* the end of the sequence.
C18_PlaybackYieldsAllFromStart ==
    (prun.active /\ (prun.from = 0 \/ prun.from >= Len(player.frames)))
        => YieldsLoaded

\* C18 witness: a start() at the end of a finished playback of two different
\* frames has yielded both again, and then None.
C18_Witness ==
    /\ prun.active /\ prun.ended
    /\ prun.from = 2 /\ Len(player.frames) = 2
    /\ prun.out = player.frames
    /\ player.frames[1] # player.frames[2]

\* C19: start with no frames loaded returns an error and leaves state and
\* index unchanged; with frames loaded it sets the state to Playing, keeps
\* the index when it is inside the sequence and resets it to zero when it is
\* at or past the end.
C19_StartContract ==
    plast.op = "start" =>
        IF Len(plast.before.frames) = 0
        THEN /\ plast.res = "Err"
             /\ player.state = plast.before.state
             /\ player.current_index = plast.before.current_index
        ELSE /\ plast.res = "Ok"
             /\ player.state = "Playing"
             /\ player.current_index =
                   IF plast.before.current_index < Len(plast.before.frames)
                   THEN plast.before.current_index
                   ELSE 0

\* C19 witness: start was called with the index at the end of a loaded
\* sequence and reset it to zero.
C19_Witness ==
    /\ plast.op = "start" /\ plast.res = "Ok"
    /\ Len(plast.before.frames) = 2 /\ plast.before.current_index = 2
    /\ player.current_index = 0 /\ player.state = "Playing"

\* C20: pause changes the state only from Playing, to Paused, and resume only
\* from Paused, to Playing; in every other state each changes nothing;
\* neither changes the index; while Paused or Stopped get_next_frame returns
\* None and does not advance the index.
C20_PauseResume ==
    /\ plast.op = "pause" =>
         IF plast.before.state = "Playing"
         THEN player = [plast.before EXCEPT !.state = "Paused"]
         ELSE player = plast.before
    /\ plast.op = "resume" =>
         IF plast.before.state = "Paused"
         THEN /\ player.state = "Playing"
              /\ player.current_index = plast.before.current_index
              /\ player.frames = plast.before.frames
         ELSE player = plast.before
    /\ (plast.op = "get_next_frame" /\ plast.before.state \in {"Paused", "Stopped"})
         => (plast.res = "None" /\ player = plast.before)

\* C20 witness: get_next_frame was called on a player paused in the middle
\* of a sequence, returned None and left the index where it was.
C20_Witness ==
    /\ plast.op = "get_next_frame" /\ plast.res = "None"
    /\ plast.before.state = "Paused"
    /\ plast.before.current_index = 1 /\ Len(player.frames) = 2
    /\ player.current_index = 1

(* -------------------------- the playback task ------------------------- *)

\* the record of a call on the player
PlayerCall(op, res, out, delay) ==
    [op |-> op, res |-> res, out |-> out, delay |-> delay, before |-> player]

\* a playback command that only calls into the player under its write lock
PlaybackCommand(op, p) ==
    /\ player' = p
    /\ plast' = PlayerCall(op, "Ok", NoFrame, 0)
    /\ UNCHANGED <<prun, ptasks, pemit>>
    /\ UNCHANGED <<channelVars, managerVars, nonPlaybackVars>>

\* ChannelManager::get_active_channel
GetActiveChannel(m) ==
    IF m.active_channel # NoChannel /\ m.active_channel \in m.channels
    THEN m.active_channel
    ELSE NoChannel

\* the slots no playback task is running in
FreeSlots == {i \in 1..MaxTasks : ptasks[i].pc = "none"}

\* load_trace
LoadTrace(parsed) == PlaybackCommand("load_file", PlayerLoad(player, parsed))

\* start_playback: start() on the player and, when it succeeded and there is
\* an active channel, a new task that pulls the frames
StartPlayback ==
    LET r == PlayerStart(player, now)
        spawns == r.res = "Ok" /\ GetActiveChannel(manager) # NoChannel
    IN
    /\ spawns => FreeSlots # {}
    /\ player' = r.p
    /\ plast' = PlayerCall("start", r.res, NoFrame, 0)
    /\ ptasks' = IF spawns
                 THEN LET slot == CHOOSE i \in FreeSlots : \A j \in FreeSlots : i <= j
                      IN  [ptasks EXCEPT ![slot] = [pc |-> "poll", frame |-> NoFrame]]
                 ELSE ptasks
    /\ UNCHANGED <<prun, pemit>>
    /\ UNCHANGED <<channelVars, managerVars, nonPlaybackVars>>

\* stop_playback
StopPlayback == PlaybackCommand("stop", PlayerStop(player))

\* pause_playback
PausePlayback == PlaybackCommand("pause", PlayerPause(player))

\* resume_playback
ResumePlayback == PlaybackCommand("resume", PlayerResume(player, now))

\* the head of the task's loop: get_next_frame under the player's write lock,
\* and the end of the task when it returns None
TaskPoll(i) ==
    /\ ptasks[i].pc = "poll"
    /\ LET r == PlayerGetNextFrame(player) IN
       /\ player' = r.p
       /\ plast' = PlayerCall("get_next_frame", r.res, r.frame, r.delay)
       /\ ptasks' = [ptasks EXCEPT ![i] =
                        IF r.res = "Some" THEN [pc |-> "sleep", frame |-> r.frame]
                        ELSE NoTask]
    /\ UNCHANGED <<prun, pemit>>
    /\ UNCHANGED <<channelVars, managerVars, nonPlaybackVars>>

\* tokio::time::sleep(delay) is over
TaskWake(i) ==
    /\ ptasks[i].pc = "sleep"
    /\ ptasks' = [ptasks EXCEPT ![i].pc = "send"]
    /\ UNCHANGED <<playerVars, pemit>>
    /\ UNCHANGED <<channelVars, managerVars, nonPlaybackVars>>

\* the rest of the loop body: the frame is sent when the channel is
\* Connected, and emitted to the front-end in every case
TaskSend(i, io) ==
    /\ ptasks[i].pc = "send"
    /\ CanAcquire(lock)
    /\ IF state.tag = "Connected"
       THEN LET r == ChannelSend(ptasks[i].frame, io) IN
            /\ r.res = "Ok" => Len(message_tx) < MaxPub
            /\ interface' = r.iface
            /\ stats' = r.stats
            /\ message_tx' = r.message_tx
       ELSE UNCHANGED <<interface, stats, message_tx>>
    /\ pemit' = ptasks[i].frame
    /\ ptasks' = [ptasks EXCEPT ![i].pc = "poll"]
    /\ UNCHANGED <<platform, now, state, start_time, filter, lock, pc, pending,
                   returned, window, epoch>>
    /\ UNCHANGED <<playerVars, managerVars, nonPlaybackVars>>

\* one step of playback task i
TaskStep(i) ==
    \/ TaskPoll(i)
    \/ TaskWake(i)
    \/ \E io \in IoOutcomes : TaskSend(i, io)

NextPlayback ==
    \/ \E parsed \in TraceFiles : LoadTrace(parsed)
    \/ StartPlayback
    \/ StopPlayback
    \/ PausePlayback
    \/ ResumePlayback
    \/ \E i \in 1..MaxTasks : TaskPoll(i)
    \/ \E i \in 1..MaxTasks : TaskWake(i)
    \/ \E i \in 1..MaxTasks, io \in IoOutcomes : TaskSend(i, io)

\* the program after connect_channel made "ch1" the active channel
PlaybackInit ==
    /\ ChannelInit
    /\ platform = "linux"
    /\ VcanNew
    /\ manager = [channels |-> {"ch1"}, active_channel |-> "ch1"]
    /\ mlast = [op |-> "set_active", id |-> "ch1", active_before |-> NoChannel]
    /\ FilterNew
    /\ PlayerNew
    /\ LkNew
    /\ UiNew
    /\ RngNew
    /\ RotNew
    /\ SxNew
    /\ HalNew
    /\ TrcNew
    /\ ParseNew
    /\ DbcNew
    /\ RxloopNew
    /\ PeriodicNew
    /\ LoggingNew
    /\ CsvNew
    /\ PlaybackNew

\* the playback commands and the tasks they spawn; a spawned task is
\* scheduled again and again by the runtime
SpecPlayback ==
    /\ PlaybackInit
    /\ [][NextPlayback]_vars
    /\ \A i \in 1..MaxTasks : WF_vars(TaskStep(i))

\* a playback task ends only with the player Stopped
ExitsOnlyWhenStopped ==
    [][\A i \in 1..MaxTasks :
          (ptasks[i].pc # "none" /\ ptasks'[i].pc = "none")
              => player'.state = "Stopped"]_vars

\* a task that finds the player Stopped ends
StoppedEndsTask ==
    \A i \in 1..MaxTasks :
        (ptasks[i].pc # "none" /\ player.state = "Stopped")
            ~> (ptasks[i].pc = "none" \/ player.state # "Stopped")

\* resume_playback has just resumed a paused player with frames left
ResumedWithFramesLeft ==
    /\ plast.op = "resume" /\ plast.before.state = "Paused"
    /\ player.state = "Playing"
    /\ player.current_index < Len(player.frames)

\* the last frame of the sequence has been pulled and emitted, or a command
\* other than resume_playback has been run
PlayedOutOrCommanded ==
    \/ /\ player.current_index = Len(player.frames)
       /\ Len(player.frames) > 0
       /\ pemit = player.frames[Len(player.frames)]
    \/ plast.op \notin {"resume", "get_next_frame"}

\* C21: the playback task ends when the player reports the end of the
\* sequence or becomes Stopped, and it stays alive while the player is
\* Paused: after pause_playback followed by resume_playback the frames not
\* yet played are eventually emitted.
C21_PlaybackTaskLifetime ==
    /\ ExitsOnlyWhenStopped
    /\ StoppedEndsTask
    /\ ResumedWithFramesLeft ~> PlayedOutOrCommanded

(* ------------------- the CSV logger and the CSV player ---------------- *)

\* a logged sequence holds at most MaxLogged frames
MaxLogged == 2

\* text is a sequence of characters
DecChars == <<"0", "1", "2", "3", "4", "5", "6", "7", "8", "9">>
HexChars == DecChars \o <<"A", "B", "C", "D", "E", "F">>

RECURSIVE ToDigits(_, _)
\* n written in the given base, without padding
ToDigits(n, base) ==
    IF n < base THEN <<HexChars[n + 1]>>
    ELSE ToDigits(n \div base, base) \o <<HexChars[(n % base) + 1]>>

\* s padded on the left with c to width w
PadLeft(s, w, c) ==
    IF Len(s) >= w THEN s ELSE [i \in 1..(w - Len(s)) |-> c] \o s

\* format!("{:0wX}", n)
FormatHex(n, w) == PadLeft(ToDigits(n, 16), w, "0")

\* format!("{}", n) of an unsigned integer
FormatDec(n) == ToDigits(n, 10)

\* format!("{}", b) of a bool
FormatBool(b) ==
    IF b THEN <<"t", "r", "u", "e">> ELSE <<"f", "a", "l", "s", "e">>

\* format!("{:.6}", t) of a time t held in units of 100 ns: rounded to the
\* microsecond
FormatSecs6(t) ==
    LET us == (t + 5) \div 10
    IN  FormatDec(us \div 1000000) \o <<".">>
            \o PadLeft(FormatDec(us % 1000000), 6, "0")

RECURSIVE Join(_, _)
\* parts.join(sep)
Join(parts, sep) ==
    IF Len(parts) = 0 THEN <<>>
    ELSE IF Len(parts) = 1 THEN parts[1]
    ELSE parts[1] \o <<sep>> \o Join(Tail(parts), sep)

RECURSIVE Split(_, _)
\* s.split(sep)
Split(s, sep) ==
    IF \A i \in 1..Len(s) : s[i] # sep THEN <<s>>
    ELSE LET k == CHOOSE i \in 1..Len(s) :
                      s[i] = sep /\ \A j \in 1..(i - 1) : s[j] # sep
         IN  <<SubSeq(s, 1, k - 1)>> \o Split(SubSeq(s, k + 1, Len(s)), sep)

\* s.trim(), for text whose only white space is the space character
Trim(s) ==
    LET inked == {i \in 1..Len(s) : s[i] # " "}
    IN  IF inked = {} THEN <<>>
        ELSE SubSeq(s, CHOOSE i \in inked : \A j \in inked : i <= j,
                       CHOOSE i \in inked : \A j \in inked : i >= j)

\* s.split_whitespace()
SplitWhitespace(s) == SelectSeq(Split(s, " "), LAMBDA part : Len(part) > 0)

RECURSIVE RemoveHexPrefix(_)
\* s.replace("0x", "").replace("0X", ""), for text without a lower-case x
RemoveHexPrefix(s) ==
    IF Len(s) < 2 THEN s
    ELSE IF s[1] = "0" /\ s[2] = "X" THEN RemoveHexPrefix(SubSeq(s, 3, Len(s)))
    ELSE <<s[1]>> \o RemoveHexPrefix(Tail(s))

\* the value of a digit in a base, -1 when it is not one
DigitValue(c, base) ==
    IF \E d \in 0..(base - 1) : HexChars[d + 1] = c
    THEN CHOOSE d \in 0..(base - 1) : HexChars[d + 1] = c
    ELSE -1

RECURSIVE ParseDigits(_, _, _)
ParseDigits(s, base, acc) ==
    IF Len(s) = 0 THEN acc
    ELSE IF DigitValue(s[1], base) < 0 THEN -1
    ELSE ParseDigits(Tail(s), base, acc * base + DigitValue(s[1], base))

\* u8::MAX
MaxU8 == 255

\* u8::from_str_radix(s, base) and parse::<u8>: -1 for an error
ParseU8(s, base) ==
    LET v == IF Len(s) = 0 \/ Len(s) > 3 THEN -1 ELSE ParseDigits(s, base, 0)
    IN  IF v > MaxU8 THEN -1 ELSE v

\* u32::from_str_radix(s, 16), for ids of up to 29 bits: more than eight
\* digits overflow, -1 for an error
ParseHexU32(s) ==
    IF Len(s) = 0 \/ Len(s) > 8 THEN -1 ELSE ParseDigits(s, 16, 0)

\* parse::<f64> of a decimal number without exponent, in units of 100 ns:
\* -1 for an error
ParseSecs(s) ==
    LET parts == Split(s, ".")
        whole == IF Len(parts[1]) = 0 THEN 0 ELSE ParseDigits(parts[1], 10, 0)
        digits == IF Len(parts) = 2 THEN parts[2] ELSE <<>>
        seven == IF Len(digits) >= 7 THEN SubSeq(digits, 1, 7)
                 ELSE digits \o [i \in 1..(7 - Len(digits)) |-> "0"]
        frac == ParseDigits(seven, 10, 0)
    IN  IF Len(parts) > 2 \/ Len(s) = 0 \/ s = <<".">> \/ whole < 0 \/ frac < 0
        THEN -1
        ELSE whole * 10000000 + frac

\* parse::<bool>().unwrap_or(false)
ParseBool(s) == s = <<"t", "r", "u", "e">>

\* the line the writer task writes for a frame in CSV format, without the
\* line feed
CsvLine(frame) ==
    LET data_hex == Join([i \in 1..Len(frame.data) |-> FormatHex(frame.data[i], 2)], " ")
        id_str == IF frame.is_extended THEN FormatHex(frame.id, 8)
                  ELSE FormatHex(frame.id, 3)
    IN  Join(<<FormatSecs6(frame.timestamp), id_str, FormatBool(frame.is_extended),
               FormatBool(frame.is_remote), FormatDec(frame.dlc), data_hex,
               frame.direction, frame.channel>>, ",")

\* the header line of a CSV trace file
CsvHeader ==
    Join(<<<<"T", "i", "m", "e">>,
           <<"I", "D">>,
           <<"E", "x", "t", "e", "n", "d", "e", "d">>,
           <<"R", "e", "m", "o", "t", "e">>,
           <<"D", "L", "C">>,
           <<"D", "a", "t", "a">>,
           <<"D", "i", "r", "e", "c", "t", "i", "o", "n">>,
           <<"C", "h", "a", "n", "n", "e", "l">>>>, ",")

\* TracePlayer::parse_csv_line
ParseCsvLine(line) ==
    LET parts == Split(line, ",")
        Field(i) == Trim(parts[i])
        timestamp == ParseSecs(Field(1))
        id == ParseHexU32(RemoveHexPrefix(Field(2)))
        dlc == ParseU8(Field(5), 10)
        bytes == SplitWhitespace(Field(6))
        data == [i \in 1..Len(bytes) |-> ParseU8(bytes[i], 16)]
    IN  IF Len(parts) < 8 THEN [ok |-> FALSE, frame |-> NoFrame]
        ELSE IF timestamp < 0 \/ id < 0 \/ dlc < 0
                  \/ \E i \in 1..Len(bytes) : data[i] < 0
        THEN [ok |-> FALSE, frame |-> NoFrame]
        ELSE [ok |-> TRUE,
              frame |-> [id |-> id, is_extended |-> ParseBool(Field(3)),
                         is_remote |-> ParseBool(Field(4)), dlc |-> dlc,
                         data |-> data, timestamp |-> timestamp,
                         channel |-> Field(8), direction |-> Field(7)]]

\* line.starts_with(prefix)
StartsWith(line, prefix) ==
    Len(line) >= Len(prefix) /\ SubSeq(line, 1, Len(prefix)) = prefix

\* TracePlayer::load_file on the lines of a CSV file: the lines after the
\* header that parse, sorted by timestamp
LoadCsv(lines) ==
    LET headers == {i \in 1..Len(lines) :
                       \/ StartsWith(lines[i], <<"T", "i", "m", "e">>)
                       \/ StartsWith(lines[i], <<"t", "i", "m", "e">>)}
        data_start_idx == IF headers = {} THEN 0
                          ELSE (CHOOSE i \in headers : \A j \in headers : i <= j)
        data_lines == SubSeq(lines, data_start_idx + 1, Len(lines))
        parsed == [i \in 1..Len(data_lines) |->
                      IF Len(Trim(data_lines[i])) = 0
                      THEN [ok |-> FALSE, frame |-> NoFrame]
                      ELSE ParseCsvLine(data_lines[i])]
        good == SelectSeq(parsed, LAMBDA r : r.ok)
    IN  SortByTimestamp([i \in 1..Len(good) |-> good[i].frame])

\* a frame as the logger receives it: time in units of 100 ns, channel and
\* direction as text
CsvFrame(id, ext, rtr, dlc, data, t, dir, chan) ==
    [id |-> id, is_extended |-> ext, is_remote |-> rtr, dlc |-> dlc,
     data |-> data, timestamp |-> t, channel |-> chan, direction |-> dir]

\* the times of the logged frames: 0 s and 1.2345678 s
CsvTimes == {0, 12345678}

\* the channel ids connect_channel was given, with the direction of the
\* frame: "ch1" and "bus,1"
CsvRoutes ==
    { [dir |-> <<"r", "x">>, chan |-> <<"c", "h", "1">>],
      [dir |-> <<"t", "x">>, chan |-> <<"b", "u", "s", ",", "1">>] }

\* the frames published on the fan-out while logging: a standard data
\* frame, an extended remote frame and a standard frame with the highest id
CsvFrames ==
    UNION { { CsvFrame(291, FALSE, FALSE, 2, <<1, 171>>, t, r.dir, r.chan),
              CsvFrame(417001744, TRUE, TRUE, 8, <<>>, t, r.dir, r.chan),
              CsvFrame(2047, FALSE, FALSE, 1, <<255>>, t, r.dir, r.chan) }
            : t \in CsvTimes, r \in CsvRoutes }

\* TraceLogger::start with the CSV format: the header is written
StartCsvLog ==
    /\ csv.stage = "new"
    /\ csv' = [csv EXCEPT !.stage = "logging", !.file = <<CsvHeader>>]
    /\ UNCHANGED nonCsvVars

\* the writer task takes a frame from its queue and writes its line
WriteCsvFrame(frame) ==
    /\ csv.stage = "logging"
    /\ Len(csv.logged) < MaxLogged
    /\ csv' = [csv EXCEPT !.logged = Append(@, frame),
                          !.file = Append(@, CsvLine(frame))]
    /\ UNCHANGED nonCsvVars

\* load_trace on the file the logger has written and flushed
LoadCsvFile ==
    /\ csv.stage = "logging"
    /\ csv' = [csv EXCEPT !.stage = "loaded", !.loaded = LoadCsv(csv.file)]
    /\ UNCHANGED nonCsvVars

NextCsv ==
    \/ StartCsvLog
    \/ \E frame \in CsvFrames : WriteCsvFrame(frame)
    \/ LoadCsvFile

\* the program after start-up, built for Linux
CsvInit == Init /\ platform = "linux"

SpecCsv == CsvInit /\ [][NextCsv]_vars

\* one microsecond, in units of 100 ns
Microsecond == 10

\* b is a on every field but the timestamp, and within 1 us of it there
SameLogged(a, b) ==
    /\ [b EXCEPT !.timestamp = 0] = [a EXCEPT !.timestamp = 0]
    /\ b.timestamp - a.timestamp <= Microsecond
    /\ a.timestamp - b.timestamp <= Microsecond

\* C22: every frame written by the CSV logger and read back by the CSV
\* player equals the original on (id, is_extended, is_remote, dlc, data,
\* direction, channel) and on timestamp to within 1 microsecond, and a
\* logged sequence is played back in the logged order.
C22_CsvRoundTrip ==
    csv.stage = "loaded" =>
        /\ Len(csv.loaded) = Len(csv.logged)
        /\ \A i \in 1..Len(csv.logged) : SameLogged(csv.logged[i], csv.loaded[i])

(* ---------------------------- trace logging --------------------------- *)

\* the channel publishes at most MaxBursts bursts of frames while a logger
\* exists
MaxBursts == 2

\* broadcast::channel(1000) of Channel::new
FANOUT_CAPACITY == 1000

\* the writer task flushes every FLUSH_EVERY frames
FLUSH_EVERY == 100

\* the number of frames the channel publishes with no step of the forwarding
\* task in between: one, or more than the fan-out retains
Bursts == {1, 2 * FANOUT_CAPACITY}

\* the frames published since the forwarding task subscribed are numbered
\* from 1; the forwarding task has taken the first `forwarded` of them and
\* the writer task has written the first `written` of them
Queued == logging.forwarded - logging.written

\* a sender of the logger's queue is alive
SendersAlive == logging.logger_tx \/ logging.forwarder = "running"

\* start_logging with a valid format and a file that can be created:
\* TraceLogger::new and start (header written, writer task spawned), then
\* the forwarding task subscribed to the active channel
StartLogging ==
    /\ logging.stage = "idle"
    /\ logging' = [logging EXCEPT
                      !.stage = "logging", !.logger_tx = TRUE,
                      !.writer = "running",
                      !.forwarder = IF GetActiveChannel(manager) # NoChannel
                                    THEN "running" ELSE "none"]
    /\ UNCHANGED nonLoggingVars

\* the active channel publishes k frames on its fan-out
PublishBurst(k) ==
    /\ logging.stage # "idle"
    /\ logging.bursts < MaxBursts
    /\ logging' = [logging EXCEPT !.bursts = @ + 1, !.published = @ + k]
    /\ UNCHANGED nonLoggingVars

\* one turn of the forwarding task's loop: rx.recv() returns the next frame
\* and the task sends it to the logger's queue, or it returns Lagged, or the
\* queue is closed, and the task ends
ForwardFrame ==
    /\ logging.forwarder = "running"
    /\ logging.published > logging.forwarded
    /\ logging' =
          IF logging.published - logging.forwarded > FANOUT_CAPACITY
          THEN [logging EXCEPT !.forwarder = "ended"]
          ELSE IF logging.writer = "ended"
          THEN [logging EXCEPT !.forwarder = "ended"]
          ELSE [logging EXCEPT !.forwarded = @ + 1]
    /\ UNCHANGED nonLoggingVars

\* one turn of the writer task's loop: the next frame of the queue is
\* written to the buffered writer, which is flushed every FLUSH_EVERY
\* frames; a failed write ends the task after a last flush
WriteFrame(io) ==
    /\ logging.writer = "running"
    /\ Queued > 0
    /\ logging' =
          IF io = "ok"
          THEN [logging EXCEPT
                   !.written = @ + 1,
                   !.flushed = IF (logging.written + 1) % FLUSH_EVERY = 0
                               THEN logging.written + 1 ELSE @]
          ELSE [logging EXCEPT !.writer = "ended", !.failed = TRUE,
                               !.flushed = logging.written]
    /\ UNCHANGED nonLoggingVars

\* rx.recv() of the writer task returns None: every sender is dropped and
\* the queue is empty; the task flushes and ends
WriterEnds ==
    /\ logging.writer = "running"
    /\ Queued = 0
    /\ ~SendersAlive
    /\ logging' = [logging EXCEPT !.writer = "ended", !.flushed = logging.written]
    /\ UNCHANGED nonLoggingVars

\* stop_logging up to the sleep of TraceLogger::stop: the logger is taken
\* out of the state and its own sender is dropped
StopLoggingBegin ==
    /\ logging.stage = "logging"
    /\ logging' = [logging EXCEPT !.stage = "stopping", !.logger_tx = FALSE]
    /\ UNCHANGED nonLoggingVars

\* stop_logging returns after the sleep
StopLoggingReturn ==
    /\ logging.stage = "stopping"
    /\ logging' = [logging EXCEPT !.stage = "stopped",
                                  !.at_stop = logging.published]
    /\ UNCHANGED nonLoggingVars

NextLogging ==
    \/ StartLogging
    \/ \E k \in Bursts : PublishBurst(k)
    \/ ForwardFrame
    \/ \E io \in IoOutcomes : WriteFrame(io)
    \/ WriterEnds
    \/ StopLoggingBegin
    \/ StopLoggingReturn

\* the program after connect_channel made "ch1" the active channel
LoggingInit ==
    /\ ChannelInit
    /\ platform = "linux"
    /\ VcanNew
    /\ manager = [channels |-> {"ch1"}, active_channel |-> "ch1"]
    /\ mlast = [op |-> "set_active", id |-> "ch1", active_before |-> NoChannel]
    /\ FilterNew
    /\ PlayerNew
    /\ LkNew
    /\ UiNew
    /\ RngNew
    /\ RotNew
    /\ SxNew
    /\ HalNew
    /\ TrcNew
    /\ ParseNew
    /\ DbcNew
    /\ RxloopNew
    /\ PeriodicNew
    /\ LoggingNew
    /\ PlaybackNew
    /\ CsvNew
    /\ LoggingNew

\* the logging commands and their two tasks, each scheduled again and again
\* by the runtime
SpecLogging ==
    /\ LoggingInit
    /\ [][NextLogging]_vars
    /\ WF_vars(ForwardFrame)
    /\ WF_vars(\E io \in IoOutcomes : WriteFrame(io))
    /\ WF_vars(WriterEnds)

\* C23: after stop_logging, all senders to the logger queue are dropped so
\* the writer task terminates with a final flush, and no frame published on
\* the channel after stop_logging returned is written to the trace file.
C23_StopEndsWriter ==
    /\ (logging.stage = "stopped")
           ~> (logging.writer = "ended" /\ logging.flushed = logging.written)
    /\ [](logging.stage = "stopped" => logging.written <= logging.at_stop)

\* the frames published on the fan-out between start_logging and
\* stop_logging
PublishedWhileLogging ==
    IF logging.stage = "stopped" THEN logging.at_stop ELSE logging.published

\* C24: delivery to the trace logger is lossless: every frame the active
\* channel publishes on its fan-out between start_logging and stop_logging
\* is eventually written to the trace file, even when the logger's consumer
\* falls more than 1000 frames behind the fan-out; a failed write of the
\* file set aside.
C24_LosslessLogging ==
    <>[](logging.failed \/ logging.written >= PublishedWhileLogging)

(* ------------------------- periodic transmit -------------------------- *)

\* the frames start_periodic_transmit is given
PeriodicFrames == { FromPayload(768, FALSE, FALSE, 1, <<1>>, ChannelId) }

\* the closure a job runs under the channel's write lock at a tick, with a
\* job that goes on when the channel is not Connected
PeriodicTick_KeepGoing(frame, io) ==
    IF state.tag # "Connected"
    THEN [continue |-> TRUE, called |-> FALSE,
          send |-> [res |-> "none", frame |-> NoFrame, iface |-> interface,
                    stats |-> stats, message_tx |-> message_tx]]
    ELSE [continue |-> TRUE, called |-> TRUE, send |-> ChannelSend(frame, io)]

\* the closure a job runs under the channel's write lock at a tick: nothing
\* is sent and the job is told to stop when the channel is not Connected,
\* else Channel::send is called once and the job goes on whatever it returns
PeriodicTick(frame, io) ==
    IF state.tag # "Connected"
    THEN [continue |-> FALSE, called |-> FALSE,
          send |-> [res |-> "none", frame |-> NoFrame, iface |-> interface,
                    stats |-> stats, message_tx |-> message_tx]]
    ELSE [continue |-> TRUE, called |-> TRUE, send |-> ChannelSend(frame, io)]

\* a step of job j or of a command on the jobs
JobStepped(op, j) == [op |-> op, id |-> j]

\* start_periodic_transmit: the frame names its channel, or the active
\* channel is used, or the command fails; the new job is registered and its
\* task spawned
StartPeriodic(chan, frame) ==
    LET id == IF chan # NoChannel THEN chan ELSE manager.active_channel
        j == periodic.started + 1
    IN
    /\ periodic.started < MaxJobs
    /\ IF id = NoChannel
       THEN /\ periodic' = [periodic EXCEPT !.last = JobStepped("start_failed", UnknownJob)]
            /\ UNCHANGED managerVars
       ELSE /\ manager' = GetOrCreateChannel(manager, id)
            /\ mlast' = [op |-> "get_or_create", id |-> id,
                         active_before |-> manager.active_channel]
            /\ periodic' = [periodic EXCEPT
                               !.registry = @ \cup {j}, !.started = j,
                               !.tasks[j] = [NoJob EXCEPT !.pc = "wait", !.frame = frame],
                               !.last = JobStepped("start", j)]
    /\ UNCHANGED <<channelVars, nonPeriodicVars>>

\* stop_periodic_transmit(j): the cancellation signal is sent when j is in
\* the registry
StopPeriodic(j) ==
    /\ periodic' =
          IF j \in periodic.registry
          THEN [periodic EXCEPT !.tasks[j].cancel = TRUE,
                                !.last = JobStepped("stop", j)]
          ELSE [periodic EXCEPT !.last = JobStepped("stop_unknown", j)]
    /\ UNCHANGED <<channelVars, managerVars, nonPeriodicVars>>

\* select! of job j takes the branch of interval.tick()
JobTickFires(j) ==
    /\ periodic.tasks[j].pc = "wait"
    /\ periodic' = [periodic EXCEPT !.tasks[j].pc = "blocking",
                                    !.last = JobStepped("tick", j)]
    /\ UNCHANGED <<channelVars, managerVars, nonPeriodicVars>>

\* the closure of the tick runs under the channel's write lock, and the job
\* breaks out of its loop or goes back to select!
JobSend(j, io) ==
    LET job == periodic.tasks[j]
        r == PeriodicTick(job.frame, io)
    IN
    /\ job.pc = "blocking"
    /\ CanAcquire(lock)
    /\ r.send.res = "Ok" => Len(message_tx) < MaxPub
    /\ interface' = r.send.iface
    /\ stats' = r.send.stats
    /\ message_tx' = r.send.message_tx
    /\ periodic' =
          [periodic EXCEPT
              !.tasks[j] = [job EXCEPT
                  !.pc = IF r.continue THEN "wait" ELSE "cleanup",
                  !.why = IF r.continue THEN @ ELSE "not_connected",
                  !.sent_after = IF job.cancel /\ r.send.res = "Ok" THEN @ + 1 ELSE @],
              !.last = JobStepped(IF r.called THEN "send" ELSE "no_send", j)]
    /\ UNCHANGED <<platform, now, state, start_time, filter, lock, pc, pending,
                   returned, window, epoch>>
    /\ UNCHANGED <<managerVars, nonPeriodicVars>>

\* select! of job j takes the branch of cancel_rx.changed() and finds true
JobSeesCancel(j) ==
    /\ periodic.tasks[j].pc = "wait"
    /\ periodic.tasks[j].cancel
    /\ periodic' = [periodic EXCEPT !.tasks[j].pc = "cleanup",
                                    !.tasks[j].why = "cancelled",
                                    !.last = JobStepped("cancelled", j)]
    /\ UNCHANGED <<channelVars, managerVars, nonPeriodicVars>>

\* after the loop: the job removes its id from the registry and ends
JobCleanup(j) ==
    /\ periodic.tasks[j].pc = "cleanup"
    /\ periodic' = [periodic EXCEPT !.registry = @ \ {j},
                                    !.tasks[j].pc = "done",
                                    !.last = JobStepped("exit", j)]
    /\ UNCHANGED <<channelVars, managerVars, nonPeriodicVars>>

NextPeriodic ==
    \/ \E iid \in InterfaceIds : ConnectBegin(iid)
    \/ \E io \in IoOutcomes : ConnectFinish(io)
    \/ ConnectReturn
    \/ Disconnect
    \/ \E chan \in {NoChannel, ChannelId}, f \in PeriodicFrames : StartPeriodic(chan, f)
    \/ \E j \in JobIds \cup {UnknownJob} : StopPeriodic(j)
    \/ \E j \in JobIds : JobTickFires(j)
    \/ \E j \in JobIds, io \in IoOutcomes : JobSend(j, io)
    \/ \E j \in JobIds : JobSeesCancel(j)
    \/ \E j \in JobIds : JobCleanup(j)

\* the program after start-up, built for Linux
PeriodicInit == Init /\ platform = "linux"

\* the commands and the jobs: a job's closure and its clean-up are run when
\* they can be, and select! takes the branch of a pending cancellation at
\* some point when it is offered again and again
SpecPeriodic ==
    /\ PeriodicInit
    /\ [][NextPeriodic]_vars
    /\ \A j \in JobIds :
          /\ WF_vars(\E io \in IoOutcomes : JobSend(j, io))
          /\ WF_vars(JobCleanup(j))
          /\ SF_vars(JobSeesCancel(j))

\* job j's task has been spawned and has not ended
JobRunning(j) == periodic.tasks[j].pc \in {"wait", "blocking", "cleanup"}

\* C25: after stop_periodic_transmit(job_id) for a running job, under fair
\* scheduling the job's task eventually exits, sends at most one further
\* frame after the cancellation signal, and removes job_id from the job
\* registry before it exits; stop_periodic_transmit with an unknown job id
\* changes nothing.  (The exit is waited for as long as the channel may
\* still publish.)
C25_StopPeriodic ==
    /\ \A j \in JobIds :
          (periodic.tasks[j].cancel /\ JobRunning(j))
              ~> (periodic.tasks[j].pc = "done" \/ Len(message_tx) >= MaxPub)
    /\ [](\A j \in JobIds : periodic.tasks[j].sent_after <= 1)
    /\ [](\A j \in JobIds : periodic.tasks[j].pc = "done" => j \notin periodic.registry)
    /\ [][periodic'.last.op = "stop_unknown" /\ periodic' # periodic
            => /\ [periodic' EXCEPT !.last = periodic.last] = periodic
               /\ UNCHANGED <<channelVars, managerVars>>]_vars

\* a step in which the closure of a tick of job j runs
ClosureRuns(j) ==
    periodic.tasks[j].pc = "blocking" /\ periodic'.tasks[j].pc # "blocking"

\* the frame the channel publishes for a frame f sent on it
SentAs(f, g) ==
    [g EXCEPT !.timestamp = 0] = [f EXCEPT !.timestamp = 0, !.direction = "tx",
                                           !.channel = ChannelId]

ConnectCommands == {"connect", "connect_channel"}

\* the receive loops spawned so far
Spawned == {i \in 1..MaxLoops : rxloops[i].pc # "none"}

\* Channel::connect returns to the connect command, which drops the write
\* lock and, when the connect succeeded, spawns its receive loop and its
\* statistics ticker
ConnectCommandReturn(cmd) ==
    /\ pc["connect"] = "ret"
    /\ pending["connect"].res = "Ok" => Cardinality(Spawned) < MaxLoops
    /\ lock' = "free"
    /\ pc' = [pc EXCEPT !["connect"] = "idle"]
    /\ pending' = [pending EXCEPT !["connect"] = NoPending]
    /\ rxloops' = IF pending["connect"].res = "Ok"
                  THEN [rxloops EXCEPT ![Cardinality(Spawned) + 1] =
                           [pc |-> "run", kind |-> cmd, ticker |-> "run"]]
                  ELSE rxloops
    /\ UNCHANGED <<platform, now, state, stats, interface, start_time,
                   message_tx, filter, returned, window, epoch>>
    /\ UNCHANGED nonRxloopVars

\* the closure of one turn of a receive loop, run under the channel's write
\* lock: the loop of connect_channel ends when the channel is not Connected,
\* the loop of the legacy connect calls Channel::receive in every state
RxLoopTurn(kind, io, wire) ==
    IF kind = "connect_channel" /\ state.tag # "Connected"
    THEN [continue |-> FALSE,
          recv |-> [res |-> "None", frame |-> NoFrame, iface |-> interface,
                    stats |-> stats, message_tx |-> message_tx]]
    ELSE [continue |-> TRUE, recv |-> ChannelReceive(io, wire)]

\* one turn of receive loop i
RxLoopTick(i, io, wire) ==
    LET r == RxLoopTurn(rxloops[i].kind, io, wire) IN
    /\ rxloops[i].pc = "run"
    /\ CanAcquire(lock)
    /\ r.recv.res = "Some" => Len(message_tx) < MaxPub
    /\ r.recv.res = "Err" => stats.error_count < MaxErrors
    /\ interface' = r.recv.iface
    /\ stats' = r.recv.stats
    /\ message_tx' = r.recv.message_tx
    /\ rxloops' = IF r.continue THEN rxloops
                  ELSE [rxloops EXCEPT ![i].pc = "done"]
    /\ UNCHANGED <<platform, now, state, start_time, filter, lock, pc, pending,
                   returned, window, epoch>>
    /\ UNCHANGED nonRxloopVars

\* some turn of receive loop i
RxLoopStep(i) ==
    \E io \in IoOutcomes, w \in WireFrames \cup {NoFrame} : RxLoopTick(i, io, w)

\* one turn of the statistics ticker spawned with receive loop i, under the
\* channel's write lock: the ticker of either connect command ends when the
\* channel is not Connected, and else refreshes the bus load (which is not
\* among the counters kept here) and emits bus-stats
StatsTick(i) ==
    /\ rxloops[i].ticker = "run"
    /\ CanAcquire(lock)
    /\ rxloops' = IF state.tag # "Connected"
                  THEN [rxloops EXCEPT ![i].ticker = "done"]
                  ELSE rxloops
    /\ UNCHANGED <<platform, now, state, stats, interface, start_time,
                   message_tx, filter, lock, pc, pending, returned, window,
                   epoch>>
    /\ UNCHANGED nonRxloopVars

NextRxloop ==
    \/ \E iid \in InterfaceIds : ConnectBegin(iid)
    \/ \E io \in IoOutcomes : ConnectFinish(io)
    \/ \E cmd \in ConnectCommands : ConnectCommandReturn(cmd)
    \/ Disconnect
    \/ \E i \in 1..MaxLoops : RxLoopStep(i)
    \/ \E i \in 1..MaxLoops : StatsTick(i)

\* the program after start-up, built for Linux
RxloopInit == Init /\ platform = "linux"

\* the connect and disconnect commands and the receive loops: a connect that
\* has begun runs to its end, and a loop gets the channel's lock at some
\* point when it is free again and again
SpecRxloop ==
    /\ RxloopInit
    /\ [][NextRxloop]_vars
    /\ WF_vars(\E io \in IoOutcomes : ConnectFinish(io))
    /\ WF_vars(\E cmd \in ConnectCommands : ConnectCommandReturn(cmd))
    /\ \A i \in 1..MaxLoops : SF_vars(RxLoopStep(i))

\* C27: the receive loop spawned for a channel by either connect command
\* (connect or connect_channel) eventually terminates once the channel
\* leaves the Connected state and stays out of it.
C27_RxLoopEnds ==
    \A i \in 1..MaxLoops :
        (rxloops[i].pc = "run" /\ state.tag # "Connected")
            ~> (rxloops[i].pc = "done" \/ state.tag = "Connected")

(* ----------------------- DbcDatabase::decode_message ------------------ *)

\* a message of the database holds at most MaxSignals signals
MaxSignals == 2

\* Option::None and Option::Some of a raw value
NoValue == [some |-> FALSE, value |-> 0]
SomeValue(v) == [some |-> TRUE, value |-> v]

\* (byte >> k) & 1
BitOf(byte, k) == (byte \div (2 ^ k)) % 2

\* Signal::extract_unsigned: the bits are taken one by one from start_bit of
\* start_byte upwards; None as soon as one lies in a byte the data lacks
ExtractUnsigned(signal, data, start_byte, start_bit) ==
    LET ByteAt(i) == start_byte + ((start_bit + i) \div 8)
        BitAt(i) == (start_bit + i) % 8
        value[i \in 0..signal.length] ==
            IF i = 0 THEN 0
            ELSE value[i - 1]
                     + BitOf(data[ByteAt(i - 1) + 1], BitAt(i - 1)) * (2 ^ (i - 1))
    IN  IF \E i \in 0..(signal.length - 1) : ByteAt(i) >= Len(data)
        THEN NoValue
        ELSE SomeValue(value[signal.length])

\* Signal::extract_signed: the unsigned value, sign-extended from its top bit
ExtractSigned(signal, data, start_byte, start_bit) ==
    LET unsigned == ExtractUnsigned(signal, data, start_byte, start_bit)
        sign_bit == 2 ^ (signal.length - 1)
    IN  IF ~unsigned.some THEN NoValue
        ELSE IF (unsigned.value \div sign_bit) % 2 = 1
        THEN SomeValue(unsigned.value - 2 ^ signal.length)
        ELSE unsigned

\* f32::from_bits(u32::from_le_bytes(b)) as i64, for floats below 2^31
F32AsI64(b) ==
    LET negative == b[4] >= 128
        exponent == (b[4] % 128) * 2 + (b[3] \div 128)
        mantissa == (b[3] % 128) * 65536 + b[2] * 256 + b[1]
        x == exponent - 127
        magnitude ==
            IF exponent = 0 \/ x < 0 THEN 0
            ELSE IF exponent = 255 THEN 0
            ELSE IF x <= 23 THEN (8388608 + mantissa) \div (2 ^ (23 - x))
            ELSE (8388608 + mantissa) * (2 ^ (x - 23))
    IN  IF negative THEN 0 - magnitude ELSE magnitude

\* f64::from_bits(u64::from_le_bytes(b)) as i64, for doubles below 2^21
F64AsI64(b) ==
    LET negative == b[8] >= 128
        exponent == (b[8] % 128) * 16 + (b[7] \div 16)
        high == (b[7] % 16) * 65536 + b[6] * 256 + b[5]
        x == exponent - 1023
        magnitude ==
            IF exponent = 0 \/ x < 0 THEN 0
            ELSE IF exponent = 2047 THEN 0
            ELSE (1048576 + high) \div (2 ^ (20 - x))
    IN  IF negative THEN 0 - magnitude ELSE magnitude

\* Signal::extract_float
ExtractFloat(data, start_byte) ==
    IF start_byte + 4 > Len(data) THEN NoValue
    ELSE SomeValue(F32AsI64(SubSeq(data, start_byte + 1, start_byte + 4)))

\* Signal::extract_double
ExtractDouble(data, start_byte) ==
    IF start_byte + 8 > Len(data) THEN NoValue
    ELSE SomeValue(F64AsI64(SubSeq(data, start_byte + 1, start_byte + 8)))

\* the shortest payload extract_raw_value works on
MinPayload == 8

\* extract_raw_value that takes a payload of any length
ExtractRawValue_AnyLength(signal, data) ==
    LET start_byte == signal.start_bit \div 8
        start_bit_in_byte == signal.start_bit % 8
    IN  CASE signal.value_type = "Unsigned" ->
                ExtractUnsigned(signal, data, start_byte, start_bit_in_byte)
          [] signal.value_type = "Signed" ->
                ExtractSigned(signal, data, start_byte, start_bit_in_byte)
          [] signal.value_type = "Float" ->
                IF signal.length = 32 THEN ExtractFloat(data, start_byte)
                ELSE NoValue
          [] signal.value_type = "Double" ->
                IF signal.length = 64 THEN ExtractDouble(data, start_byte)
                ELSE NoValue

\* Signal::extract_raw_value
ExtractRawValue(signal, data) ==
    IF Len(data) < MinPayload THEN NoValue
    ELSE ExtractRawValue_AnyLength(signal, data)

\* Option<String>::None of a value table reference or a value name
NoName == ""

\* the DecodedSignal decode_message builds for a signal and its raw value
Decoded(db, signal, raw_value) ==
    [name |-> signal.name, raw_value |-> raw_value,
     physical_value |-> raw_value * signal.factor + signal.offset,
     unit |-> signal.unit,
     value_name |->
        IF signal.value_table # NoName
              /\ signal.value_table \in DOMAIN db.value_tables
              /\ raw_value \in DOMAIN db.value_tables[signal.value_table]
        THEN db.value_tables[signal.value_table][raw_value]
        ELSE NoName]

\* DbcDatabase::decode_message
DecodeMessage(db, message_id, data) ==
    IF message_id \in DOMAIN db.messages
    THEN LET signals == db.messages[message_id].signals
             raw == [i \in 1..Len(signals) |-> ExtractRawValue(signals[i], data)]
             kept == SelectSeq([i \in 1..Len(signals) |-> i], LAMBDA i : raw[i].some)
         IN  [k \in 1..Len(kept) |-> Decoded(db, signals[kept[k]], raw[kept[k]].value)]
    ELSE <<>>

\* a signal definition
SignalDef(name, start_bit, length, value_type, factor, offset, unit, value_table) ==
    [name |-> name, start_bit |-> start_bit, length |-> length,
     value_type |-> value_type, factor |-> factor, offset |-> offset,
     unit |-> unit, value_table |-> value_table]

\* the signals of the databases: a byte, a signed byte across two bytes, the
\* last byte of an 8-byte payload, a byte that ends past an 8-byte payload,
\* a float, a double and a one-bit signal with a value table
SignalDefs ==
    { SignalDef("A", 0, 8, "Unsigned", 1, 0, "", NoName),
      SignalDef("B", 4, 8, "Signed", 2, -1, "V", NoName),
      SignalDef("C", 56, 8, "Unsigned", 1, 0, "", NoName),
      SignalDef("D", 60, 8, "Unsigned", 1, 0, "", NoName),
      SignalDef("F", 0, 32, "Float", 1, 0, "", NoName),
      SignalDef("G", 0, 64, "Double", 1, 0, "", NoName),
      SignalDef("E", 8, 1, "Unsigned", 1, 0, "", "State") }

\* the signal lists of a message: no two signals of the same name
SignalLists ==
    { l \in UNION { [1..n -> SignalDefs] : n \in 0..MaxSignals } :
        \A i, j \in 1..Len(l) : l[i].name = l[j].name => i = j }

\* the id of the message of the database, and an id it does not hold
KnownMessage == 256
UnknownMessage == 257

\* a database with one message and one value table
Database(signals) ==
    [messages |-> [id \in {KnownMessage} |->
                      [id |-> id, name |-> "M", dlc |-> 8, signals |-> signals]],
     value_tables |-> [t \in {"State"} |-> [v \in {0, 1} |->
                          IF v = 0 THEN "Off" ELSE "On"]]]

\* the payloads decode_message is given: of 0, 2, 4 and 8 bytes
Payloads ==
    { <<>>, <<255, 1>>, <<0, 0, 128, 63>>,
      <<0, 0, 128, 63, 0, 0, 240, 63>>, <<255, 1, 2, 3, 4, 5, 6, 135>> }

\* a database is loaded; decode_message is about to be called
DecodeInit ==
    /\ ChannelInit
    /\ platform = "linux"
    /\ VcanNew
    /\ ManagerNew
    /\ FilterNew
    /\ PlayerNew /\ PlaybackNew
    /\ CsvNew
    /\ LoggingNew
    /\ PeriodicNew
    /\ RxloopNew
    /\ RotNew
    /\ SxNew
    /\ HalNew
    /\ TrcNew
    /\ ParseNew
    /\ RngNew
    /\ UiNew
    /\ LkNew
    /\ dbc \in [db : {Database(l) : l \in SignalLists},
                message_id : {KnownMessage, UnknownMessage},
                data : Payloads, done : {FALSE}, result : {<<>>}]

\* the call db.decode_message(message_id, &data)
DecodeCall ==
    /\ ~dbc.done
    /\ dbc' = [dbc EXCEPT !.done = TRUE,
                          !.result = DecodeMessage(dbc.db, dbc.message_id, dbc.data)]
    /\ UNCHANGED nonDbcVars

NextDecode == DecodeCall

SpecDecode == DecodeInit /\ [][NextDecode]_vars

\* one of the signal's bits lies past the end of the payload
PastEnd(signal, data) == signal.start_bit + signal.length > 8 * Len(data)

\* the signals of the message decode_message was called for
CalledSignals == dbc.db.messages[dbc.message_id].signals

\* C28: decode_message omits a signal exactly when one of the signal's bits
\* lies past the end of the payload, and decodes every other signal of the
\* message unaffected; in particular for a payload shorter than 8 bytes a
\* signal lying wholly inside the payload is still decoded.
C28_OmitsExactlyPastEnd ==
    (dbc.done /\ dbc.message_id \in DOMAIN dbc.db.messages) =>
        \A i \in 1..Len(CalledSignals) :
            LET signal == CalledSignals[i]
                found == {k \in 1..Len(dbc.result) : dbc.result[k].name = signal.name}
            IN  IF PastEnd(signal, dbc.data) THEN found = {}
                ELSE \E k \in found :
                        dbc.result[k] =
                            Decoded(dbc.db, signal,
                                    ExtractRawValue_AnyLength(signal, dbc.data).value)

(* ------------------ DbcParser::parse and SymParser::parse ------------- *)

\* a database file has at most MaxLines lines
MaxLines == 8

\* HashMap::insert and HashMap::remove
MapInsert(m, k, v) == [x \in (DOMAIN m) \cup {k} |-> IF x = k THEN v ELSE m[x]]
MapRemove(m, k) == [x \in (DOMAIN m) \ {k} |-> m[x]]

\* a line of a database file, by the prefix the parser tests and the fields
\* its field parsers take from the rest of the line
Line(kind, name, ref, num) == [kind |-> kind, name |-> name, ref |-> ref, num |-> num]

\* the values of every VAL_ line and of every enum line
TableValues == [v \in {0, 1} |-> IF v = 0 THEN "Off" ELSE "On"]

\* the enum references of the /e: attribute: none, a defined enum and one no
\* line defines
EnumRefs == {NoName, "E1", "E2"}

\* the lines of a DBC file: BO_ of two messages, SG_ of two signals, VAL_
\* for a signal and for a name no signal has, and a line of another kind
DbcLines ==
    { Line("BO_", "M1", "", 256), Line("BO_", "M2", "", 512),
      Line("SG_", "S1", "", 0), Line("SG_", "V1", "", 8),
      Line("VAL_", "S1", "", 256), Line("VAL_", "X1", "", 256),
      Line("CM_", "", "", 0) }

\* the lines of a SYM file: section markers, an enum, a signal definition
\* (Sig=S1 unsigned 8 /e:..), a signal assignment (Sig=S1 0), a message
\* header with its Type, ID and Len lines, and a variable (Var=V1 unsigned
\* 0,8 /e:..)
SymLines ==
    { Line("{SIGNALS}", "", "", 0), Line("{SENDRECEIVE}", "", "", 0),
      Line("{ENUMS}", "", "", 0),
      Line("enum", "E1", "", 0),
      Line("Sig=def", "S1", "", 8), Line("Sig=def", "S1", "E1", 8),
      Line("Sig=at", "S1", "", 0),
      Line("[", "M1", "", 0), Line("Type=", "Extended", "", 0),
      Line("ID=", "", "", 256), Line("Len=", "", "", 8) }
    \cup { Line("Var=", "V1", e, 0) : e \in EnumRefs }

\* a message with no signals yet
NewMessage(id, name, dlc) == [id |-> id, name |-> name, dlc |-> dlc, signals |-> <<>>]

\* message.signals.push(signal) on the message of the id, if the database
\* has one
PushSignal(db, id, signal) ==
    IF id \in DOMAIN db.messages
    THEN [db EXCEPT !.messages[id].signals = Append(@, signal)]
    ELSE db

\* the body of the line loop of DbcParser::parse
DbcParseLine(st, line) ==
    CASE line.kind = "BO_" ->
            [st EXCEPT !.db.messages =
                           MapInsert(@, line.num, NewMessage(line.num, line.name, 8)),
                       !.current_message_id = line.num]
      [] line.kind = "SG_" ->
            IF st.current_message_id # NoNumber
            THEN [st EXCEPT !.db =
                     PushSignal(@, st.current_message_id,
                                SignalDef(line.name, line.num, 8, "Unsigned",
                                          1, 0, "", NoName))]
            ELSE st
      [] line.kind = "VAL_" ->
            [st EXCEPT !.value_tables = MapInsert(@, line.name, TableValues)]
      [] OTHER -> st

\* the (message id, signal index) pairs of a database, message by message in
\* the order of ids given and signal by signal within a message
SignalOrder(db, ids) ==
    LET RECURSIVE walk(_)
        walk(k) ==
            IF k > Len(ids) THEN <<>>
            ELSE [i \in 1..Len(db.messages[ids[k]].signals) |-> <<ids[k], i>>]
                     \o walk(k + 1)
    IN  walk(1)

\* the orders in which HashMap::values_mut can visit the messages
MessageOrders(db) ==
    { o \in [1..Cardinality(DOMAIN db.messages) -> DOMAIN db.messages] :
        \A i, j \in DOMAIN o : o[i] = o[j] => i = j }

\* one turn of the linking loop of DbcParser::parse: the table is looked up
\* by the signal's name and moved into the database
DbcLinkSignal(st, at) ==
    LET signal == st.db.messages[at[1]].signals[at[2]]
    IN  IF signal.name \in DOMAIN st.value_tables
        THEN [st EXCEPT !.value_tables = MapRemove(@, signal.name),
                        !.db.value_tables =
                            MapInsert(@, signal.name, st.value_tables[signal.name]),
                        !.db.messages[at[1]].signals[at[2]].value_table = signal.name]
        ELSE st

\* one turn of the linking loop of SymParser::parse: the table is looked up
\* by the enum name the signal carries and moved into the database
SymLinkSignal(st, at) ==
    LET signal == st.db.messages[at[1]].signals[at[2]]
        enum_name == signal.value_table
    IN  IF enum_name # NoName /\ enum_name \in DOMAIN st.value_tables
        THEN [st EXCEPT !.value_tables = MapRemove(@, enum_name),
                        !.db.value_tables =
                            MapInsert(@, enum_name, st.value_tables[enum_name]),
                        !.db.messages[at[1]].signals[at[2]].value_table = enum_name]
        ELSE st

\* the linking loop of a parser over the signals in the order given
LinkAll(st, order, LinkSignal(_, _)) ==
    LET RECURSIVE go(_, _)
        go(s, k) == IF k > Len(order) THEN s ELSE go(LinkSignal(s, order[k]), k + 1)
    IN  go(st, 1)

\* SymParser::try_create_message
TryCreateMessage(st) ==
    IF st.current_message_name # "" /\ st.current_message_id # NoNumber
          /\ st.current_message_dlc # NoNumber
    THEN [st EXCEPT !.db.messages =
                        MapInsert(@, st.current_message_id,
                                  NewMessage(st.current_message_id,
                                             st.current_message_name,
                                             st.current_message_dlc)),
                    !.current_message_name = "",
                    !.current_message_dlc = NoNumber,
                    !.current_message_extended = FALSE]
    ELSE st

\* the body of the line loop of SymParser::parse
SymParseLine(st, line) ==
    LET marked ==
            IF line.kind \in {"{SIGNALS}", "{SENDRECEIVE}", "{ENUMS}"}
            THEN [st EXCEPT !.in_signals_section = line.kind = "{SIGNALS}",
                            !.in_sendreceive_section = line.kind = "{SENDRECEIVE}"]
            ELSE st
        signal == SignalDef(line.name, 0, line.num, "Unsigned", 1, 0, "", line.ref)
    IN  CASE line.kind \in {"{SIGNALS}", "{SENDRECEIVE}", "{ENUMS}"} -> marked
          [] line.kind = "enum" ->
                [st EXCEPT !.value_tables = MapInsert(@, line.name, TableValues)]
          [] line.kind \in {"Sig=def", "Sig=at"} /\ st.in_signals_section ->
                IF line.kind = "Sig=def"
                THEN [st EXCEPT !.signal_definitions = MapInsert(@, line.name, signal)]
                ELSE st
          [] line.kind = "[" /\ st.in_sendreceive_section ->
                [st EXCEPT !.current_message_name = line.name,
                           !.current_message_id = NoNumber,
                           !.current_message_dlc = NoNumber,
                           !.current_message_extended = FALSE]
          [] line.kind = "Type=" /\ st.in_sendreceive_section
                /\ st.current_message_name # "" ->
                [st EXCEPT !.current_message_extended = line.name = "Extended"]
          [] line.kind = "ID=" /\ st.in_sendreceive_section
                /\ st.current_message_name # "" ->
                TryCreateMessage([st EXCEPT !.current_message_id = line.num])
          [] line.kind = "Len=" /\ st.in_sendreceive_section
                /\ st.current_message_name # "" ->
                TryCreateMessage([st EXCEPT !.current_message_dlc = line.num])
          [] line.kind \in {"Sig=def", "Sig=at"} /\ st.in_sendreceive_section
                /\ st.current_message_id # NoNumber ->
                IF line.kind = "Sig=at" /\ line.name \in DOMAIN st.signal_definitions
                THEN [st EXCEPT !.db =
                         PushSignal(@, st.current_message_id,
                                    [st.signal_definitions[line.name]
                                        EXCEPT !.start_bit = line.num])]
                ELSE st
          [] line.kind = "Var=" /\ st.in_sendreceive_section
                /\ st.current_message_id # NoNumber ->
                [st EXCEPT !.db = PushSignal(@, st.current_message_id,
                                             [signal EXCEPT !.length = 8])]
          [] OTHER -> st

\* DbcParser::parse reads the next line of the file
DbcReadLine(line) ==
    /\ parse.format = "dbc" /\ ~parse.done /\ parse.read < MaxLines
    /\ parse' = [DbcParseLine(parse, line) EXCEPT !.read = parse.read + 1]
    /\ UNCHANGED nonParseVars

\* DbcParser::parse at the end of the file: the linking loop, then Ok(db)
DbcFinish ==
    /\ parse.format = "dbc" /\ ~parse.done
    /\ \E ids \in MessageOrders(parse.db) :
          parse' = [LinkAll(parse, SignalOrder(parse.db, ids), DbcLinkSignal)
                        EXCEPT !.done = TRUE]
    /\ UNCHANGED nonParseVars

\* SymParser::parse reads the next line of the file
SymReadLine(line) ==
    /\ parse.format = "sym" /\ ~parse.done /\ parse.read < MaxLines
    /\ parse' = [SymParseLine(parse, line) EXCEPT !.read = parse.read + 1]
    /\ UNCHANGED nonParseVars

\* SymParser::parse at the end of the file: the linking loop, then Ok(db)
SymFinish ==
    /\ parse.format = "sym" /\ ~parse.done
    /\ \E ids \in MessageOrders(parse.db) :
          parse' = [LinkAll(parse, SignalOrder(parse.db, ids), SymLinkSignal)
                        EXCEPT !.done = TRUE]
    /\ UNCHANGED nonParseVars

NextParse ==
    \/ \E line \in DbcLines : DbcReadLine(line)
    \/ DbcFinish
    \/ \E line \in SymLines : SymReadLine(line)
    \/ SymFinish

\* a parser is called on a file
ParseInit ==
    /\ ChannelInit
    /\ platform = "linux"
    /\ VcanNew
    /\ ManagerNew
    /\ FilterNew
    /\ PlayerNew /\ PlaybackNew
    /\ CsvNew
    /\ LoggingNew
    /\ PeriodicNew
    /\ RxloopNew
    /\ RotNew
    /\ SxNew
    /\ HalNew
    /\ TrcNew
    /\ DbcNew
    /\ RngNew
    /\ UiNew
    /\ LkNew
    /\ parse \in {ParseStart("dbc"), ParseStart("sym")}

SpecParse == ParseInit /\ [][NextParse]_vars

\* the signals of the database the parser produced
ParsedSignals ==
    UNION { {m.signals[i] : i \in 1..Len(m.signals)} :
            m \in {parse.db.messages[id] : id \in DOMAIN parse.db.messages} }

\* C29: for every database produced by the DBC parser or the SYM parser,
\* every signal that carries a value_table reference has that name present
\* as a key of the database's value_tables map, including when the referenced
\* enum is never defined and when several signals refer to the same table.
C29_ValueTablesPresent ==
    parse.done =>
        \A signal \in ParsedSignals :
            signal.value_table # NoName =>
                signal.value_table \in DOMAIN parse.db.value_tables

(* ------------------- TracePlayer::load_file, TRC files ---------------- *)

\* a TRC file has at most MaxRows data rows
MaxRows == 2

\* line.contains(part)
Contains(line, part) ==
    \E i \in 0..(Len(line) - Len(part)) : SubSeq(line, i + 1, i + Len(part)) = part

RECURSIVE TrimStartMatches(_, _)
\* line.trim_start_matches(prefix)
TrimStartMatches(line, prefix) ==
    IF StartsWith(line, prefix)
    THEN TrimStartMatches(SubSeq(line, Len(prefix) + 1, Len(line)), prefix)
    ELSE line

\* parse::<f64> of a decimal number without sign or exponent that has at most
\* `places` decimals, as the integer number * 10^places: -1 for an error
ParseScaled(text, places) ==
    LET parts == Split(text, ".")
        whole == IF Len(parts[1]) = 0 THEN 0 ELSE ParseDigits(parts[1], 10, 0)
        digits == IF Len(parts) = 2 THEN parts[2] ELSE <<>>
        padded == IF Len(digits) >= places THEN SubSeq(digits, 1, places)
                  ELSE digits \o [i \in 1..(places - Len(digits)) |-> "0"]
        frac == ParseDigits(padded, 10, 0)
    IN  IF Len(parts) > 2 \/ Len(text) = 0 \/ text = <<".">> \/ whole < 0 \/ frac < 0
        THEN -1
        ELSE whole * (10 ^ places) + frac

\* the prefix load_file looks for in the header of a TRC file
StartTimePrefix == <<";", "$", "S", "T", "A", "R", "T", "T", "I", "M", "E",
                     "=">>

\* the test of load_file for the first data line of a TRC file
IsTrcDataLine(line) ==
    /\ ~StartsWith(line, <<"$">>)
    /\ ~StartsWith(line, <<";">>)
    /\ Len(Trim(line)) # 0
    /\ ~Contains(line, <<"M", "e", "s", "s", "a", "g", "e">>)
    /\ ~StartsWith(line, <<"-", "-", "-", "+", "-", "-", "-">>)
    /\ Len(line) > 10

\* the header scan of load_file: the start time in tenths of a day
\* (NoNumber for None) and the index of the first data line, where the scan
\* ends
TrcHeaderScan(lines) ==
    LET RECURSIVE scan(_, _)
        scan(idx, start_time_days) ==
            IF idx > Len(lines)
            THEN [start_time_days |-> start_time_days, data_start_idx |-> 0]
            ELSE LET line == lines[idx]
                     seen == IF StartsWith(line, StartTimePrefix)
                             THEN ParseScaled(Trim(TrimStartMatches(line, StartTimePrefix)), 1)
                             ELSE start_time_days
                 IN  IF IsTrcDataLine(line)
                     THEN [start_time_days |-> seen, data_start_idx |-> idx - 1]
                     ELSE scan(idx + 1, seen)
    IN  scan(1, NoNumber)

\* the days from the MS Basic epoch to the Unix epoch, in tenths of a day
UNIX_EPOCH_DAYS == 255690

\* the seconds of a tenth of a day
SECONDS_PER_TENTH == 8640

\* a time in seconds and microseconds
TimeOf(seconds, micros) ==
    [s |-> seconds + (micros \div 1000000), us |-> micros % 1000000]

\* the timestamp parse_trc_line computes from the start time (in tenths of
\* a day) and the row's offset (in thousandths of a millisecond)
TrcTimestamp(start_time_days, time_offset) ==
    IF start_time_days # NoNumber
    THEN TimeOf((start_time_days - UNIX_EPOCH_DAYS) * SECONDS_PER_TENTH, time_offset)
    ELSE TimeOf(0, time_offset)

\* the result of a line that does not parse
TrcError == [ok |-> FALSE, frame |-> [NoFrame EXCEPT !.timestamp = TimeOf(0, 0),
                                                  !.channel = <<>>]]

\* TracePlayer::parse_trc_line
ParseTrcLine(line, start_time_days, bus_to_channel) ==
    LET parts == SplitWhitespace(line)
        typed == ~(Len(parts) >= 3 /\ ParseU8(Trim(parts[3]), 10) >= 0)
        bus_idx == IF typed THEN 4 ELSE 3
        id_idx == 5
        direction_idx == IF typed THEN 6 ELSE 4
        dlc_idx == IF typed THEN 8 ELSE 7
        data_start_idx == IF typed THEN 8 ELSE 7
        time_offset == ParseScaled(Trim(parts[2]), 3)
        bus_num == ParseU8(Trim(parts[bus_idx]), 10)
        channel == IF bus_to_channel.some /\ bus_num \in DOMAIN bus_to_channel.map
                   THEN bus_to_channel.map[bus_num]
                   ELSE <<"c", "h", "a", "n", "n", "e", "l", "_">> \o FormatDec(bus_num)
        id == ParseHexU32(Trim(parts[id_idx]))
        dlc == ParseU8(Trim(parts[dlc_idx]), 10)
        data == [i \in 1..dlc |-> ParseU8(parts[data_start_idx + i], 16)]
    IN  IF Len(parts) < 8 THEN TrcError
        ELSE IF time_offset < 0 \/ bus_num < 0 \/ id < 0 \/ dlc < 0 THEN TrcError
        ELSE IF Len(parts) < data_start_idx + dlc THEN TrcError
        ELSE IF \E i \in 1..dlc : data[i] < 0 THEN TrcError
        ELSE [ok |-> TRUE,
              frame |-> [id |-> id, is_extended |-> id > 2047, is_remote |-> FALSE,
                         dlc |-> dlc, data |-> data,
                         timestamp |-> TrcTimestamp(start_time_days, time_offset),
                         channel |-> channel,
                         direction |-> IF Trim(parts[direction_idx])[1] \in {"R", "r"}
                                       THEN "rx" ELSE "tx"]]

\* a.timestamp <= b.timestamp
NotAfter(a, b) == a.s < b.s \/ (a.s = b.s /\ a.us <= b.us)

RECURSIVE SortByTime(_)
\* frames.sort_by(timestamp): a stable sort
SortByTime(frames) ==
    IF Len(frames) <= 1 THEN frames
    ELSE LET rest == SortByTime(SubSeq(frames, 1, Len(frames) - 1))
             last == frames[Len(frames)]
             before == SelectSeq(rest, LAMBDA f : NotAfter(f.timestamp, last.timestamp))
             after == SelectSeq(rest, LAMBDA f : ~NotAfter(f.timestamp, last.timestamp))
         IN  before \o <<last>> \o after

\* TracePlayer::load_file on the lines of a TRC file: the lines from the
\* first data line on that parse, sorted by timestamp
LoadTrc(lines, bus_to_channel) ==
    LET head == TrcHeaderScan(lines)
        data_lines == SubSeq(lines, head.data_start_idx + 1, Len(lines))
        parsed == [i \in 1..Len(data_lines) |->
                      IF Len(Trim(data_lines[i])) = 0 THEN TrcError
                      ELSE ParseTrcLine(data_lines[i], head.start_time_days,
                                        bus_to_channel)]
        good == SelectSeq(parsed, LAMBDA r : r.ok)
    IN  SortByTime([i \in 1..Len(good) |-> good[i].frame])

\* the headers of the TRC files, each with the start time its STARTTIME line
\* gives in tenths of a day: no header, and STARTTIME lines of 45000.5 and
\* of 45001.0 with and without a leading semicolon
TrcHeaders ==
    { [start |-> NoNumber, lines |-> <<>>],
      [start |-> 450005,
       lines |-> <<<<"$", "F", "I", "L", "E", "V", "E", "R", "S", "I", "O",
                     "N", "=", "2", ".", "0">>,
                   <<"$", "S", "T", "A", "R", "T", "T", "I", "M", "E", "=",
                     "4", "5", "0", "0", "0", ".", "5">>>>],
      [start |-> 450005,
       lines |-> <<<<";", "$", "F", "I", "L", "E", "V", "E", "R", "S", "I",
                     "O", "N", "=", "2", ".", "0">>,
                   <<";", "$", "S", "T", "A", "R", "T", "T", "I", "M", "E",
                     "=", "4", "5", "0", "0", "0", ".", "5">>,
                   <<";", " ", " ", " ", "M", "e", "s", "s", "a", "g", "e",
                     " ", "N", "u", "m", "b", "e", "r">>>>],
      [start |-> 450010,
       lines |-> <<<<"$", "S", "T", "A", "R", "T", "T", "I", "M", "E", "=",
                     "4", "5", "0", "0", "1", ".", "0">>>>],
      [start |-> 450010,
       lines |-> <<<<";", "$", "S", "T", "A", "R", "T", "T", "I", "M", "E",
                     "=", "4", "5", "0", "0", "1", ".", "0">>>>] }

\* the data rows of the TRC files, each with its time offset in thousandths
\* of a millisecond: a row with the type column at 1000.0 ms, one without it
\* at 0.274 ms, and one on a bus the mapping lacks at 2500.5 ms
TrcRows ==
    { [offset |-> 1000000,
       text |-> <<"1", " ", "1", "0", "0", "0", ".", "0", " ", "D", "T",
                 " ", "1", " ", "0", "1", "3", "2", " ", "R", "x", " ",
                 "-", " ", "2", " ", "C", "4", " ", "0", "0">>],
      [offset |-> 274,
       text |-> <<"1", ")", " ", "0", ".", "2", "7", "4", " ", "1", " ",
                 "R", "x", " ", "0", "1", "1", "C", " ", "-", " ", "2",
                 " ", "C", "4", " ", "0", "0">>],
      [offset |-> 2500500,
       text |-> <<"2", " ", "2", "5", "0", "0", ".", "5", " ", "D", "T",
                 " ", "3", " ", "0", "1", "3", "2", " ", "T", "x", " ",
                 "-", " ", "1", " ", "C", "4">>] }

\* the bus-to-channel mappings load_file is given
TrcMappings ==
    { NoMapping, [some |-> TRUE, map |-> [b \in {1} |-> <<"C", "A", "N", "_", "A">>]] }

\* the lines of the file in trc
TrcLines == trc.header.lines \o [i \in 1..Len(trc.rows) |-> trc.rows[i].text]

\* a TRC file is about to be loaded
TrcInit ==
    /\ ChannelInit
    /\ platform = "linux"
    /\ VcanNew
    /\ ManagerNew
    /\ FilterNew
    /\ PlayerNew /\ PlaybackNew
    /\ CsvNew
    /\ LoggingNew
    /\ PeriodicNew
    /\ RxloopNew
    /\ RotNew
    /\ SxNew
    /\ HalNew
    /\ DbcNew
    /\ ParseNew
    /\ RngNew
    /\ UiNew
    /\ LkNew
    /\ trc \in [header : TrcHeaders,
                rows : UNION { [1..n -> TrcRows] : n \in 1..MaxRows },
                mapping : TrcMappings, done : {FALSE}, frames : {<<>>}]

\* load_file(path.trc, bus_to_channel, _)
LoadTrcFile ==
    /\ ~trc.done
    /\ trc' = [trc EXCEPT !.done = TRUE, !.frames = LoadTrc(TrcLines, trc.mapping)]
    /\ UNCHANGED nonTrcVars

NextTrc == LoadTrcFile

SpecTrc == TrcInit /\ [][NextTrc]_vars

\* (start - 25569) * 86400 + offset_ms / 1000 with a STARTTIME header of
\* start, offset_ms / 1000 with none
RowTime(start, offset) ==
    IF start # NoNumber
    THEN TimeOf((start - 255690) * 8640, offset)
    ELSE TimeOf(0, offset)

\* the timestamps of the loaded frames, in order
LoadedTimes == [i \in 1..Len(trc.frames) |-> trc.frames[i].timestamp]

\* the row times of the file by its header and its rows, in time order
RowTimes ==
    LET sorted == SortByTime([i \in 1..Len(trc.rows) |->
                      [timestamp |-> RowTime(trc.header.start, trc.rows[i].offset)]])
    IN  [i \in 1..Len(sorted) |-> sorted[i].timestamp]

\* C30: loading a TRC file whose header has the line $STARTTIME=45000.5 and
\* a data row with time offset 1000.0 ms gives that frame the timestamp
\* (45000.5 - 25569.0) * 86400 + 1.0; in general a row's timestamp is
\* (STARTTIME - 25569) * 86400 + offset_ms / 1000 when a STARTTIME header is
\* present, and offset_ms / 1000 when none is.
C30_TrcTimestamps == trc.done => LoadedTimes = RowTimes

(* ------------------- frames a channel accepts for sending ------------- *)

\* the payloads of the frames have at most MaxData bytes
MaxData == 9

\* a payload of n bytes: 1, 2, .., n
Bytes(n) == [i \in 1..n |-> i]

\* data.len().min(8)
ClassicLen(n) == IF n < 8 THEN n ELSE 8

\* CanFrame::new
CanFrameNew(id, data) ==
    [id |-> id, is_extended |-> id > StdMask, is_remote |-> FALSE,
     dlc |-> ClassicLen(Len(data)), data |-> SubSeq(data, 1, ClassicLen(Len(data))),
     timestamp |-> 0, channel |-> "", direction |-> "tx"]

\* CanFrame::new_extended
CanFrameNewExtended(id, data) ==
    [CanFrameNew(id, data) EXCEPT !.is_extended = TRUE]

\* CanFrame::new_rtr
CanFrameNewRtr(id, dlc) ==
    [id |-> id, is_extended |-> id > StdMask, is_remote |-> TRUE,
     dlc |-> ClassicLen(dlc), data |-> <<>>,
     timestamp |-> 0, channel |-> "", direction |-> "tx"]

\* frames built by the constructors: a standard one, one whose data is cut to
\* 8 bytes and whose id makes it extended, an extended one with a low id and
\* a remote request
BuiltFrames ==
    { CanFrameNew(768, Bytes(1)), CanFrameNew(2048, Bytes(MaxData)),
      CanFrameNewExtended(5, <<>>), CanFrameNewRtr(768, 0) }

\* frames converted from the FramePayload of send_message: a well-formed
\* one, a standard frame with the ids 0x800 and 0x10123, an extended frame
\* with the id 0x20000000, a dlc of 3 over one byte of data, and a remote
\* frame that carries data
PayloadFrames ==
    { FromPayload(768, FALSE, FALSE, 1, Bytes(1), ""),
      FromPayload(2048, FALSE, FALSE, 1, Bytes(1), ""),
      FromPayload(65827, FALSE, FALSE, 1, Bytes(1), ""),
      FromPayload(536870912, TRUE, FALSE, 1, Bytes(1), ""),
      FromPayload(768, FALSE, FALSE, 3, Bytes(1), ""),
      FromPayload(768, FALSE, TRUE, 1, Bytes(1), "") }

\* the frames send_message hands to Channel::send
SendFrames == BuiltFrames \cup PayloadFrames

\* connect, disconnect and send_message on one channel, with every frame of
\* SendFrames
NextSend ==
    \/ \E iid \in InterfaceIds : ConnectBegin(iid)
    \/ ConnectReturn
    \/ \E io \in IoOutcomes : ConnectFinish(io)
    \/ Disconnect
    \/ \E f \in SendFrames, io \in IoOutcomes : SendCall("send_message", f, io)
    \/ SendReturn("send_message")

SpecSend == Init /\ [][NextSend]_vars

\* the invariants of a frame: the data of a data frame has min(dlc, 8) bytes,
\* the id fits the frame's kind, a remote frame has no data
FrameInvariants(frame) ==
    /\ ~frame.is_remote => Len(frame.data) = ClassicLen(frame.dlc)
    /\ IF frame.is_extended THEN frame.id <= ExtMask ELSE frame.id <= StdMask
    /\ frame.is_remote => Len(frame.data) = 0

\* C31: every frame a channel accepts for sending and publishes on its
\* fan-out (built by the frame constructors or converted from an IPC
\* FramePayload) satisfies the frame invariants: data length equals
\* min(dlc, 8), a standard frame has id <= 0x7FF and an extended one
\* id <= 0x1FFFFFFF, and a remote frame has empty data.
C31_PublishedFramesValid ==
    \A i \in 1..Len(message_tx) : FrameInvariants(message_tx[i])

(* --------------------- CanInterface::send, by back-end ---------------- *)

\* at most MaxSends frames are sent on the back-end in one behaviour
MaxSends == 2

\* frame.id as u16
AsU16(id) == id % 65536

\* the frame SocketCanInterface::send hands to write_frame: the id as
\* StandardId or ExtendedId took it, and dlc bytes of the zero-padded data
SocketCanWire(frame) ==
    [frame EXCEPT !.id = IF frame.is_extended THEN frame.id ELSE AsU16(frame.id),
                  !.is_remote = FALSE,
                  !.data = [i \in 1..frame.dlc |->
                               IF i <= Len(frame.data) THEN frame.data[i] ELSE 0]]

\* the back-ends a channel can hold
HalInterfaces == {NewVirtual("vcan0"), NewSocketCan("can0"), NewPcan("pcan_usb1")}

\* a back-end has been created
HalInit ==
    /\ ChannelInit
    /\ platform = "linux"
    /\ VcanNew
    /\ ManagerNew
    /\ FilterNew
    /\ PlayerNew /\ PlaybackNew
    /\ CsvNew
    /\ LoggingNew
    /\ PeriodicNew
    /\ RxloopNew
    /\ RotNew
    /\ SxNew
    /\ DbcNew
    /\ ParseNew
    /\ TrcNew
    /\ RngNew
    /\ UiNew
    /\ LkNew
    /\ hal \in [iface : HalInterfaces, sends : {0}, res : {"none"}, arg : {NoFrame},
                wire : {NoFrame}]

\* iface.connect(config)
HalConnect(io) ==
    /\ hal.res = "none"
    /\ hal' = [hal EXCEPT !.iface = IfaceConnect(hal.iface, now, io).iface]
    /\ UNCHANGED nonHalVars

\* iface.set_filter(filter) on the virtual back-end
HalSetFilter(f) ==
    /\ hal.res = "none"
    /\ hal.iface.kind = "virtual"
    /\ hal' = [hal EXCEPT !.iface.filter = f]
    /\ UNCHANGED nonHalVars

\* iface.send(&frame); io is the outcome of write_frame
HalSend(frame, io) ==
    /\ hal.sends < MaxSends
    /\ LET r == IfaceSend(hal.iface, frame, now, io) IN
       hal' = [iface |-> r.iface, sends |-> hal.sends + 1, res |-> r.res,
               arg |-> frame,
               wire |-> IF r.res = "Ok" /\ hal.iface.kind = "socketcan"
                        THEN SocketCanWire(frame) ELSE NoFrame]
    /\ UNCHANGED nonHalVars

NextHal ==
    \/ \E io \in IoOutcomes : HalConnect(io)
    \/ \E f \in VcanFilters : HalSetFilter(f)
    \/ \E frame \in SendFrames, io \in IoOutcomes : HalSend(frame, io)

SpecHal == HalInit /\ [][NextHal]_vars

\* the frame's id violates its kind
IdViolatesKind(frame) ==
    IF frame.is_extended THEN frame.id > ExtMask ELSE frame.id > StdMask

\* C32: a back-end's send returns an error, and transmits or loops back
\* nothing, when the frame's id violates its kind: a standard frame with
\* id > 0x7FF or an extended frame with id > 0x1FFFFFFF; no back-end sends
\* such a frame under a truncated id.
C32_BadIdRefused ==
    [][\A frame \in SendFrames, io \in IoOutcomes :
          (HalSend(frame, io) /\ IdViolatesKind(frame))
             => (/\ hal'.res = "Err"
                 /\ hal'.wire = NoFrame
                 /\ hal'.iface.rx_buffer = hal.iface.rx_buffer)]_vars

(* ------------------ Signal::extract_signed, bit by bit ---------------- *)

\* the width of u64 and i64
WORD_BITS == 64

\* the builds of the program: with overflow checks (debug) and without
\* (release)
Builds == {"debug", "release"}

\* Option<i64>::None, a panic, and Some of an i64 given by its 64 bits, the
\* lowest first
NoBits == [some |-> FALSE, panic |-> FALSE, bits |-> <<>>]
Panicked == [some |-> FALSE, panic |-> TRUE, bits |-> <<>>]
SomeBits(bits) == [some |-> TRUE, panic |-> FALSE, bits |-> bits]

\* Signal::extract_unsigned, the value as its 64 bits
ExtractUnsignedBits(length, data, start_byte, start_bit) ==
    LET ByteAt(i) == start_byte + ((start_bit + i) \div 8)
        BitAt(i) == (start_bit + i) % 8
    IN  IF \E i \in 0..(length - 1) : ByteAt(i) >= Len(data)
        THEN NoBits
        ELSE SomeBits([i \in 1..WORD_BITS |->
                          IF i <= length
                          THEN BitOf(data[ByteAt(i - 1) + 1], BitAt(i - 1))
                          ELSE 0])

\* 1u64 << length: a panic with overflow checks when length is the width of
\* the word, else the shift by length modulo the width
ShiftOfOne(length, build) ==
    IF length >= WORD_BITS /\ build = "debug"
    THEN [panic |-> TRUE, by |-> 0]
    ELSE [panic |-> FALSE, by |-> length % WORD_BITS]

\* Signal::extract_signed, the value as its 64 bits: with the sign bit set
\* the result is unsigned | !((1u64 << length) - 1)
ExtractSignedBits(length, data, start_byte, start_bit, build) ==
    LET unsigned == ExtractUnsignedBits(length, data, start_byte, start_bit)
        shift == ShiftOfOne(length, build)
    IN  IF ~unsigned.some THEN NoBits
        ELSE IF unsigned.bits[length] = 1
        THEN IF shift.panic THEN Panicked
             ELSE SomeBits([i \in 1..WORD_BITS |->
                               IF i <= shift.by THEN unsigned.bits[i] ELSE 1])
        ELSE unsigned

\* Signal::extract_raw_value of a Signed signal
ExtractRawSigned(length, start_bit, data, build) ==
    IF Len(data) < MinPayload THEN NoBits
    ELSE ExtractSignedBits(length, data, start_bit \div 8, start_bit % 8, build)

\* the lengths and start bits of the signed signals
SignedLengths == {1, 8, 12, 32, 63, 64}
SignedStarts == {0, 4}

\* the payloads: all bits set, only the top bit set, top bit clear, all clear
SignedPayloads ==
    { [i \in 1..8 |-> 255], [i \in 1..8 |-> IF i = 8 THEN 128 ELSE 0],
      <<255, 1, 2, 3, 4, 5, 6, 7>>, [i \in 1..8 |-> 0] }

\* a signed signal is about to be extracted from a payload
SxInit ==
    /\ ChannelInit
    /\ platform = "linux"
    /\ VcanNew
    /\ ManagerNew
    /\ FilterNew
    /\ PlayerNew /\ PlaybackNew
    /\ CsvNew
    /\ LoggingNew
    /\ PeriodicNew
    /\ RxloopNew
    /\ RotNew
    /\ DbcNew
    /\ ParseNew
    /\ TrcNew
    /\ HalNew
    /\ RngNew
    /\ UiNew
    /\ LkNew
    /\ sx \in [length : SignedLengths, start_bit : SignedStarts,
               data : SignedPayloads, build : Builds, done : {FALSE},
               result : {NoBits}]

\* signal.extract_raw_value(data)
SxCall ==
    /\ ~sx.done
    /\ sx' = [sx EXCEPT !.done = TRUE,
                        !.result = ExtractRawSigned(sx.length, sx.start_bit,
                                                    sx.data, sx.build)]
    /\ UNCHANGED nonSxVars

NextSx == SxCall

SpecSx == SxInit /\ [][NextSx]_vars

\* bit k (from 0) of the payload read as a little-endian bit string
PayloadBit(data, k) == BitOf(data[(k \div 8) + 1], k % 8)

\* the two's-complement reading of the length bits from start_bit on: the
\* bits themselves, then the top one of them repeated
TwosComplement(length, start_bit, data) ==
    [i \in 1..WORD_BITS |->
        IF i <= length THEN PayloadBit(data, start_bit + i - 1)
        ELSE PayloadBit(data, start_bit + length - 1)]

\* C33: for a Signed signal of any length L in 1..64 the decoded raw value
\* is the two's-complement interpretation of the L extracted bits: when bit
\* L-1 is set all higher bits are filled with 1, otherwise the value equals
\* the unsigned value; for L = 64 the result is the 64 extracted bits read
\* as a signed 64-bit integer.
C33_SignExtension ==
    (sx.done /\ sx.start_bit + sx.length <= 8 * Len(sx.data)) =>
        /\ sx.result.some
        /\ sx.result.bits = TwosComplement(sx.length, sx.start_bit, sx.data)

(* ------------------ TraceLogger: the writer task's rotation ----------- *)

\* the writer task is given at most MaxWritten frames; the wall clock stops at
\* MaxClock seconds
MaxWritten == 3
MaxClock == 2

\* 1024 * 1024
MIB == 1048576

\* the lengths in bytes of a frame's line: a usual one and one with a long
\* channel id
LineLengths == {40, 600000}

\* the rotation configurations a TraceLogger is created with
RotConfigs ==
    [auto_split : BOOLEAN, max_file_size_mb : {NoNumber, 0, 1},
     max_file_duration_sec : {NoNumber, 1}]

\* a file as File::create makes it at the time given, the header written
NewTraceFile(split_num, at) ==
    [split_num |-> split_num, header |-> TRUE, rows |-> <<>>, bytes |-> 0,
     opened |-> at]

\* the should_split of the writer task after a line was written
ShouldSplit(config, size, started, clock) ==
    IF ~config.auto_split THEN FALSE
    ELSE IF config.max_file_size_mb # NoNumber
    THEN size > config.max_file_size_mb * MIB
    ELSE IF config.max_file_duration_sec # NoNumber
    THEN clock - started > config.max_file_duration_sec
    ELSE FALSE

\* a TraceLogger is created with a configuration and started: the file is
\* created with its header and the writer task spawned
RotInit ==
    /\ ChannelInit
    /\ platform = "linux"
    /\ VcanNew
    /\ ManagerNew
    /\ FilterNew
    /\ PlayerNew /\ PlaybackNew
    /\ CsvNew
    /\ LoggingNew
    /\ PeriodicNew
    /\ RxloopNew
    /\ DbcNew
    /\ ParseNew
    /\ TrcNew
    /\ HalNew
    /\ SxNew
    /\ RngNew
    /\ UiNew
    /\ LkNew
    /\ rot \in [config : RotConfigs, task : {"running"}, clock : {0},
                start_time : {0}, frame_count : {0}, current_file_size : {0},
                files : {<<NewTraceFile(0, 0)>>}]

\* one turn of the writer task's loop for a frame whose line has len bytes;
\* io is the outcome of File::create for a split file
RotWriteFrame(len, io) ==
    /\ rot.task = "running"
    /\ rot.frame_count < MaxWritten
    /\ LET frame_count == rot.frame_count + 1
           current_file_size == rot.current_file_size + len
           cur == Len(rot.files)
           written == [rot.files EXCEPT ![cur].rows = Append(@, frame_count),
                                        ![cur].bytes = @ + len]
           should_split == ShouldSplit(rot.config, current_file_size,
                                       rot.start_time, rot.clock)
       IN  rot' =
              IF ~should_split
              THEN [rot EXCEPT !.frame_count = frame_count,
                               !.current_file_size = current_file_size,
                               !.files = written]
              ELSE IF io = "ok"
              THEN [rot EXCEPT !.frame_count = frame_count,
                               !.current_file_size = 0,
                               !.files = Append(written,
                                                NewTraceFile(frame_count, rot.clock))]
              ELSE [rot EXCEPT !.frame_count = frame_count,
                               !.current_file_size = current_file_size,
                               !.files = written, !.task = "ended"]
    /\ UNCHANGED nonRotVars

\* a second of wall time passes
RotClockTick ==
    /\ rot.task = "running"
    /\ rot.clock < MaxClock
    /\ rot' = [rot EXCEPT !.clock = @ + 1]
    /\ UNCHANGED nonRotVars

NextRot ==
    \/ \E len \in LineLengths, io \in IoOutcomes : RotWriteFrame(len, io)
    \/ RotClockTick

SpecRot == RotInit /\ [][NextRot]_vars

\* the file the writer task writes to
CurrentFile == rot.files[Len(rot.files)]

\* a limit of the configuration is exceeded for the current file once len
\* more bytes are written to it
LimitExceeded(len) ==
    \/ /\ rot.config.max_file_size_mb # NoNumber
       /\ CurrentFile.bytes + len > rot.config.max_file_size_mb * MIB
    \/ /\ rot.config.max_file_duration_sec # NoNumber
       /\ rot.clock - rot.start_time > rot.config.max_file_duration_sec

\* the files that hold the row of frame n
FilesOf(n) == {i \in 1..Len(rot.files) :
                  \E k \in 1..Len(rot.files[i].rows) : rot.files[i].rows[k] = n}

\* C34: with rotation enabled, the logger's writer rotates to a new file
\* after a frame whenever either the bytes written to the current file
\* exceed max_size_mb * 2^20 or the elapsed time exceeds max_duration_sec,
\* also when both limits are configured; the new file starts with the format
\* header and every frame row is written to exactly one file.
C34_RotatesOnEitherLimit ==
    [][\A len \in LineLengths :
          (RotWriteFrame(len, "ok") /\ rot.config.auto_split /\ LimitExceeded(len))
             => /\ Len(rot'.files) = Len(rot.files) + 1
                /\ rot'.files[Len(rot'.files)].header
                /\ rot'.files[Len(rot'.files)].rows = <<>>
                /\ \A n \in 1..rot'.frame_count :
                      Cardinality({i \in 1..Len(rot'.files) :
                          \E k \in 1..Len(rot'.files[i].rows) :
                              rot'.files[i].rows[k] = n}) = 1]_vars

\* C39: after the logger's writer rotates to a new file, the rotation
\* condition is re-armed for that file: the next rotation happens only after
\* the size or duration limit has been exceeded again measured from the
\* rotation, so a rotation triggered by elapsed time is not followed by a
\* rotation on every subsequent frame.
C39_RotationRearmed ==
    [][(Len(rot'.files) = Len(rot.files) + 1 /\ Len(rot.files) > 1)
          => \/ /\ rot.config.max_file_size_mb # NoNumber
                /\ rot'.files[Len(rot.files)].bytes
                       > rot.config.max_file_size_mb * MIB
             \/ /\ rot.config.max_file_duration_sec # NoNumber
                /\ rot.clock - CurrentFile.opened
                       > rot.config.max_file_duration_sec]_vars

(* ------------------ TracePlayer: the range of the current index ------- *)

\* the index seek(i) leaves on a sequence of len frames
SeekTarget(i, len) == IF len = 0 THEN 0 ELSE IF i <= len - 1 THEN i ELSE len - 1

\* C35: seek(i) sets the player's current index to min(i, len-1) (0 for an
\* empty sequence) and stop sets it to 0 with state Stopped; after any
\* sequence of load, start, stop, pause, resume, seek and get_next_frame the
\* current index satisfies 0 <= index <= len.
C35_IndexInRange ==
    /\ [](player.current_index \in 0..Len(player.frames))
    /\ [][/\ \A i \in 0..MaxFrames :
                CallSeek(i) =>
                    /\ player'.current_index = SeekTarget(i, Len(player.frames))
                    /\ player'.frames = player.frames
                    /\ player'.state = player.state
          /\ CallStop => (player'.current_index = 0 /\ player'.state = "Stopped")]_vars

\* seek has just pulled the index back from the end of a full sequence to
\* its last frame
C35_Witness ==
    /\ plast.op = "seek"
    /\ Len(player.frames) = MaxFrames
    /\ plast.before.current_index = Len(player.frames)
    /\ player.current_index = Len(player.frames) - 1

(* ------------------ CanFilter::range under the virtual filter test ---- *)

RECURSIVE BitXor(_, _)
\* u32 ^ u32
BitXor(a, b) ==
    IF a = 0 THEN b
    ELSE IF b = 0 THEN a
    ELSE ((a + b) % 2) + 2 * BitXor(a \div 2, b \div 2)

\* CanFilter::range
CanFilterRange(start, end, extended) ==
    LET diff == BitXor(start, end)
        mask == BitXor(IF extended THEN ExtMask ELSE StdMask, diff)
    IN  [set |-> TRUE, id |-> start, mask |-> mask, extended |-> extended]

\* the ends of the ranges asked for and the ids of the frames tested
RangeEnds == {0, 1, 2, 3, 256, 258, 2047}
RangeIds == {0, 1, 2, 3, 256, 257, 258, 2047}

\* a data frame of one kind with the id given
RangeFrame(id, extended) ==
    [NoFrame EXCEPT !.id = id, !.is_extended = extended, !.channel = "vcan0",
                    !.direction = "rx"]

\* a range with start <= end and a frame are chosen
RngInit ==
    /\ ChannelInit
    /\ platform = "linux"
    /\ VcanNew
    /\ ManagerNew
    /\ FilterNew
    /\ PlayerNew /\ PlaybackNew
    /\ CsvNew
    /\ LoggingNew
    /\ PeriodicNew
    /\ RxloopNew
    /\ DbcNew
    /\ ParseNew
    /\ TrcNew
    /\ HalNew
    /\ SxNew
    /\ RotNew
    /\ UiNew
    /\ LkNew
    /\ \E start \in RangeEnds, end \in RangeEnds, extended \in BOOLEAN,
          id \in RangeIds, frame_ext \in BOOLEAN :
          /\ start <= end
          /\ rng = [start |-> start, end |-> end, extended |-> extended,
                    frame |-> RangeFrame(id, frame_ext), done |-> FALSE,
                    filter |-> NoFilter, passes |-> FALSE]

\* the filter is built by CanFilter::range, set on a virtual interface and
\* the frame put to its filter test
RangeCall ==
    /\ ~rng.done
    /\ LET built == CanFilterRange(rng.start, rng.end, rng.extended)
       IN  rng' = [rng EXCEPT !.done = TRUE, !.filter = built,
                              !.passes = PassesFilter([filter |-> built],
                                                      rng.frame)]
    /\ UNCHANGED nonRngVars

NextRng == RangeCall

SpecRng == RngInit /\ [][NextRng]_vars

\* C36: a filter built by CanFilter::range(start, end, extended) with
\* start <= end accepts, under the virtual interface's filter test
\* (frame.id & mask) == (filter.id & mask), every frame of the matching kind
\* whose id lies in [start, end].
C36_RangeAcceptsAll ==
    (/\ rng.done
     /\ rng.frame.is_extended = rng.extended
     /\ rng.start <= rng.frame.id
     /\ rng.frame.id <= rng.end) => rng.passes

(* ------------------ receive loops and tickers per channel ------------- *)

\* the receive loops and the statistics tickers that are running
RunningLoops == {i \in 1..MaxLoops : rxloops[i].pc = "run"}
RunningTickers == {i \in 1..MaxLoops : rxloops[i].ticker = "run"}

\* C37: after any sequence of connect, connect_channel, disconnect and
\* disconnect_channel commands on one channel id, including a reconnect
\* issued before the old loops have polled again and a connect on an already
\* connected channel, at most one receive loop and at most one statistics
\* ticker are running for that channel.
C37_OneLoopOneTicker ==
    /\ Cardinality(RunningLoops) <= 1
    /\ Cardinality(RunningTickers) <= 1

(* ------------------ can-message events of send_message ---------------- *)

\* start_logging with a valid format and a file that can be created, as far
\* as the UI sees it: the forwarding task is spawned, subscribed to the
\* fan-out of the channel from the next frame published on
StartForwarder ==
    /\ ui.forwarder = "none"
    /\ ui' = [ui EXCEPT !.forwarder = "running", !.next = Len(message_tx) + 1]
    /\ UNCHANGED nonUiVars

\* one turn of the forwarding task's loop: the next frame of the fan-out is
\* sent to the logger's queue and emitted as can-message
ForwarderEmit ==
    /\ ui.forwarder = "running"
    /\ ui.next <= Len(message_tx)
    /\ ui' = [ui EXCEPT !.next = @ + 1,
                        !.events = Append(@, [by |-> "forwarder", n |-> ui.next])]
    /\ UNCHANGED nonUiVars

\* Channel::send returns to send_message, which drops the write lock and,
\* when the send succeeded, emits the sent frame as can-message
SendMessageReturn ==
    /\ pc["send_message"] = "ret"
    /\ returned' = IF pending["send_message"].res = "Ok"
                   THEN Append(returned, pending["send_message"].frame)
                   ELSE returned
    /\ window' = IF pending["send_message"].res = "Ok"
                 THEN [window EXCEPT !.n = @ + 1]
                 ELSE window
    /\ lock' = "free"
    /\ pc' = [pc EXCEPT !["send_message"] = "idle"]
    /\ pending' = [pending EXCEPT !["send_message"] = NoPending]
    /\ ui' = IF pending["send_message"].res = "Ok"
             THEN [ui EXCEPT !.events = Append(@, [by |-> "send_message",
                                                   n |-> Len(message_tx)])]
             ELSE ui
    /\ UNCHANGED <<platform, now, state, stats, interface, start_time,
                   message_tx, filter, epoch>>
    /\ UNCHANGED nonChannelUiVars

\* connect, disconnect, start_logging and send_message on one channel
NextEmit ==
    \/ \E iid \in InterfaceIds : ConnectBegin(iid)
    \/ ConnectReturn
    \/ \E io \in IoOutcomes : ConnectFinish(io)
    \/ Disconnect
    \/ \E f \in WireFrames, io \in IoOutcomes : SendCall("send_message", f, io)
    \/ SendMessageReturn
    \/ StartForwarder
    \/ ForwarderEmit

SpecEmit == Init /\ [][NextEmit]_vars

\* the can-message events emitted for the n-th frame sent on the channel
EventsOf(n) == {e \in 1..Len(ui.events) : ui.events[e].n = n}

\* the sends whose send_message has returned Ok
ReturnedSends ==
    {n \in 1..Len(message_tx) :
        n < Len(message_tx) \/ pc["send_message"] # "ret"}

\* C38: each successful send_message produces exactly one can-message event
\* for the UI, whether or not trace logging is active on the channel.
C38_OneEventPerSend ==
    \A n \in ReturnedSends : Cardinality(EventsOf(n)) = 1

(* ------------------ the shared locks of AppState ---------------------- *)

\* the shared locks: the channel manager, a channel, the periodic-job
\* registry, the trace logger, the trace player and the database registry
Locks == {"channel_manager", "channel", "periodic_jobs", "trace_logger",
          "trace_player", "dbc_databases"}

\* a read or write guard on a lock
R(l) == [lock |-> l, write |-> FALSE]
W(l) == [lock |-> l, write |-> TRUE]

\* a section is the guards a piece of code holds together, taken in the
\* order given and all dropped at the end of the scope; Alone is a guard
\* dropped before the next one is taken
Alone(g) == <<g>>

\* the commands that are invoked, one for each sequence of sections: the
\* commands that LockPlan puts in one case with one of these take the same
\* locks in the same order
Commands ==
    {"connect", "disconnect", "disconnect_channel", "get_bus_stats",
     "start_periodic_transmit", "stop_periodic_transmit", "set_filter",
     "start_logging", "stop_logging", "load_trace", "start_playback",
     "get_playback_state", "load_dbc", "decode_message"}

\* a plan in which connect and start_logging keep their first guard while
\* they take the next, in opposite orders
LockPlan_Nested(cmd) ==
    CASE cmd = "connect" -> << <<W("channel_manager"), W("channel")>> >>
      [] cmd = "start_logging" ->
            << <<R("channel"), R("channel_manager")>>, Alone(W("trace_logger")) >>
      [] OTHER -> << Alone(W("channel")) >>

\* the sections of each command and of one turn of each task's loop, in the
\* order the code runs them
LockPlan(cmd) ==
    CASE cmd \in {"connect", "connect_channel", "send_message"} ->
            << Alone(W("channel_manager")), Alone(W("channel")) >>
      [] cmd = "disconnect" ->
            << Alone(R("channel_manager")), Alone(R("channel")),
               Alone(W("channel")) >>
      [] cmd \in {"disconnect_channel", "set_advanced_filter", "clear_messages"} ->
            << Alone(R("channel_manager")), Alone(W("channel")) >>
      [] cmd = "get_bus_stats" ->
            << Alone(R("channel_manager")), Alone(R("channel")) >>
      [] cmd = "start_periodic_transmit" ->
            << Alone(W("channel_manager")), Alone(W("periodic_jobs")) >>
      [] cmd = "stop_periodic_transmit" -> << Alone(R("periodic_jobs")) >>
      [] cmd = "set_filter" -> << Alone(R("channel_manager")) >>
      [] cmd = "start_logging" ->
            << Alone(R("channel_manager")), Alone(R("channel")),
               Alone(W("trace_logger")) >>
      [] cmd = "stop_logging" -> << Alone(W("trace_logger")) >>
      [] cmd \in {"load_trace", "stop_playback", "pause_playback",
                  "resume_playback", "set_playback_speed"} ->
            << Alone(W("trace_player")) >>
      [] cmd = "start_playback" ->
            << Alone(W("trace_player")), Alone(R("channel_manager")) >>
      [] cmd = "get_playback_state" -> << Alone(R("trace_player")) >>
      [] cmd = "load_dbc" -> << Alone(W("dbc_databases")) >>
      [] cmd \in {"decode_message", "get_message_info"} ->
            << Alone(R("dbc_databases")) >>
      [] cmd \in {"receive loop", "statistics ticker", "periodic tick"} ->
            << Alone(W("channel")) >>
      [] cmd = "periodic cleanup" -> << Alone(W("periodic_jobs")) >>
      [] cmd = "playback turn" ->
            << Alone(W("trace_player")), Alone(W("channel")) >>

\* the tasks a command spawns before it returns
SpawnedBy(cmd) ==
    CASE cmd \in {"connect", "connect_channel"} -> {"rx", "ticker"}
      [] cmd = "start_periodic_transmit" -> {"periodic"}
      [] cmd = "start_playback" -> {"playback"}
      [] OTHER -> {}

\* the loop a task runs
LoopOf(task) ==
    CASE task = "rx" -> "receive loop"
      [] task = "ticker" -> "statistics ticker"
      [] task = "periodic" -> "periodic tick"
      [] task = "playback" -> "playback turn"

\* the section process p is in, and the guards it holds
SectionOf(p) == LockPlan(lk[p].cmd)[lk[p].sec]
HeldBy(p) ==
    IF lk[p].cmd = "none" THEN {}
    ELSE {SectionOf(p)[k] : k \in 1..lk[p].held}

\* the guard process p asks for next; p waits for it until it is granted
Waiting(p) == lk[p].cmd # "none" /\ lk[p].held < Len(SectionOf(p))
Wanted(p) == SectionOf(p)[lk[p].held + 1]

\* RwLock::read and RwLock::write: a write guard is granted when nobody
\* holds the lock, a read guard when no writer holds it
Grantable(g) ==
    \A q \in Slots \cup Tasks :
        \A h \in HeldBy(q) : h.lock = g.lock => (~g.write /\ ~h.write)

\* a command is invoked on a free slot
LockStart(p, cmd) ==
    /\ p \in Slots
    /\ lk[p].cmd = "none"
    /\ lk' = [lk EXCEPT ![p] = [cmd |-> cmd, sec |-> 1, held |-> 0]]
    /\ UNCHANGED nonLkVars

\* process p is granted the guard it waits for
LockAcquire(p) ==
    /\ Waiting(p)
    /\ Grantable(Wanted(p))
    /\ lk' = [lk EXCEPT ![p].held = @ + 1]
    /\ UNCHANGED nonLkVars

\* process p leaves its section and drops the guards of it; after its last
\* section a command spawns its tasks and returns, the periodic job either
\* ticks again or goes on to its cleanup, and any other task either loops
\* again or ends
LockRelease(p, again) ==
    /\ lk[p].cmd # "none"
    /\ lk[p].held = Len(SectionOf(p))
    /\ LET cmd == lk[p].cmd
           last == lk[p].sec = Len(LockPlan(cmd))
           next == IF ~last THEN [lk[p] EXCEPT !.sec = @ + 1, !.held = 0]
                   ELSE IF p \in Slots \/ cmd = "periodic cleanup" THEN NoProc
                   ELSE IF again THEN [cmd |-> cmd, sec |-> 1, held |-> 0]
                   ELSE IF cmd = "periodic tick"
                   THEN [cmd |-> "periodic cleanup", sec |-> 1, held |-> 0]
                   ELSE NoProc
       IN  lk' = [q \in Slots \cup Tasks |->
                    IF q = p THEN next
                    ELSE IF /\ last
                            /\ p \in Slots
                            /\ q \in SpawnedBy(cmd)
                            /\ lk[q].cmd = "none"
                    THEN [cmd |-> LoopOf(q), sec |-> 1, held |-> 0]
                    ELSE lk[q]]
    /\ UNCHANGED nonLkVars

NextLk ==
    \/ \E p \in Slots, cmd \in Commands : LockStart(p, cmd)
    \/ \E p \in Slots \cup Tasks : LockAcquire(p)
    \/ \E p \in Slots \cup Tasks, again \in BOOLEAN : LockRelease(p, again)

SpecLk == Init /\ [][NextLk]_vars

\* process p can take a step: it is granted the guard it waits for, or it
\* holds all the guards of its section and goes on
CanStep(p) ==
    /\ lk[p].cmd # "none"
    /\ IF Waiting(p) THEN Grantable(Wanted(p)) ELSE TRUE

\* C40: no command or background task waits for one of the shared locks
\* (channel manager, a channel, periodic-job registry, trace logger, trace
\* player, database registry) while holding another of them, so any
\* interleaving of commands, receive loops, statistics tickers, periodic jobs
\* and the playback task is free of deadlock.
C40_NoNestedLocks ==
    /\ \A p \in Slots \cup Tasks : Waiting(p) => HeldBy(p) = {}
    /\ \A p \in Slots \cup Tasks : Cardinality(HeldBy(p)) <= 1
    /\ (\E p \in Slots \cup Tasks : lk[p].cmd # "none")
          => \E p \in Slots \cup Tasks : CanStep(p)

\* the receive loop waits for the channel while a second connect holds it,
\* and another command holds the channel manager
C40_Witness ==
    /\ Waiting("rx")
    /\ ~Grantable(Wanted("rx"))
    /\ lk["cmd1"].cmd = "connect"
    /\ HeldBy("cmd1") = {W("channel")}
    /\ HeldBy("cmd2") = {R("channel_manager")}

====
